---------------------------- MODULE Spec2Model ----------------------------
(***************************************************************************)
(* A model of the ormgen runtime library (package orm): the copy-on-write  *)
(* query builder of orm/query.go, its terminal methods against an abstract *)
(* connection, and the transaction helper of orm/db.go.                    *)
(*                                                                         *)
(* Go values are modelled with their sharing: a *Query is an index into    *)
(* the heap `queries`, a slice is a header (backing array, len, cap) into  *)
(* the heap `arrays`, a map is an index into the heap `maps`.  SQL text is *)
(* a sequence of tokens; the placeholder byte '?' is always a token of its *)
(* own, so that the byte-wise placeholder rewrite can be computed.         *)
(***************************************************************************)
EXTENDS Integers, Sequences, FiniteSets, TLC

VARIABLES
    dialect,    \* the Dialect of the connection: "mysql" or "postgres"
    queries,    \* heap of Query structs; a *Query is an index (1 is the base)
    arrays,     \* heap of slice backing arrays
    maps,       \* heap of Go maps (joinDefs, preloaders)
    call,       \* per caller: the builder call in progress
    ret,        \* per caller: the last builder call that returned
    published,  \* the *Query values callers hold: the base and every result
    expect,     \* history: the fragments each published query was built to hold
    snap,       \* history: the fragments each published query held when the
                \* caller got it
    base,       \* the shared base query the callers derive from
    nderived,   \* number of builder calls started
    txpc,       \* where DB.Transaction stands
    err,        \* the named result err of Transaction
    panicking,  \* the panic in flight in Transaction, if any
    cur,        \* history: what happened in the Transaction call in progress
    hist,       \* history: the Transaction calls that ended
    committed,  \* storage: the rows the original connection sees
    pending,    \* storage: the rows written in the open transaction
    txopen,     \* storage: a transaction is begun and not yet ended
    seen,       \* the rows the last query on the original connection saw
    seenAfter,  \* history: how many Transaction calls had ended at that query
    term,       \* the terminal method in progress: its locals and its result
    sent,       \* storage: the statements the connection received
    tlog,       \* history: what All did, in order
    pure,       \* a function of the scope or orm package: input and result
    sl          \* the Scopes slices a caller holds, and their history

heapVars == <<dialect, queries, arrays, maps>>

buildVars == <<call, ret, published, expect, snap, base, nderived>>

txVars == <<txpc, err, panicking, cur, hist, committed, pending, txopen,
            seen, seenAfter>>

termVars == <<term, sent, tlog>>

auxVars == <<pure, sl>>

vars == <<heapVars, buildVars, txVars, termVars, auxVars>>

-----------------------------------------------------------------------------
(* Bounds *)

\* builder calls the callers make in total
MaxDerive == 2

\* Transaction calls made one after the other
MaxTx == 2

\* builder calls made before the terminal method
MaxTermOps == 2

\* rows of the table that match a statement
MaxRows == 2

\* items handed to CreateAll
MaxItems == 2

\* values handed to scope.In
MaxIn == 3

\* scopes in a Scopes value a caller starts with
MaxScopes == 2

\* writes a caller makes to the slices after the call
MaxWrites == 1

\* tokens of an authored statement handed to the placeholder rewrite
MaxTokens == 4

\* the concurrent callers deriving from the shared base
Callers == {1, 2}

\* a *int or *string field: nil, or a pointer to a value of its own
NilPtr == <<>>
Ptr(x) == <<x>>
Deref(p) == p[1]

-----------------------------------------------------------------------------
(* Text helpers: SQL text is a sequence of tokens *)

RECURSIVE stringsJoin(_, _)
stringsJoin(parts, sep) ==
    IF Len(parts) = 0 THEN <<>>
    ELSE IF Len(parts) = 1 THEN parts[1]
    ELSE parts[1] \o sep \o stringsJoin(Tail(parts), sep)

RECURSIVE Flatten(_)
Flatten(parts) ==
    IF Len(parts) = 0 THEN <<>> ELSE parts[1] \o Flatten(Tail(parts))

-----------------------------------------------------------------------------
(* Dialect *)

Dialects == {"mysql", "postgres"}

Placeholder(d, index) ==
    IF d = "mysql" THEN "?" ELSE "$" \o ToString(index)

\* the two quote bytes: the backquote 0x60, which a TLA+ string cannot
\* hold, is written by its escape; the double quote as itself
BackQuote == "\\x60"
DoubleQuote == "\""

QuoteIdent(d, name) ==
    IF d = "mysql" THEN BackQuote \o name \o BackQuote
    ELSE DoubleQuote \o name \o DoubleQuote

UseReturning(d) == d = "postgres"

ReturningClause(d, pk) ==
    IF d = "mysql" THEN <<>> ELSE <<" RETURNING \"" \o pk \o "\"">>

-----------------------------------------------------------------------------
(* Slices and their backing arrays *)

NilSlice == [arr |-> 0, len |-> 0, cap |-> 0]

\* the elements a slice header denotes
Elems(A, s) == IF s.len = 0 THEN <<>> ELSE SubSeq(A[s.arr], 1, s.len)

\* capacity the runtime gives a slice that has to grow by one element
growCap(oldCap) == IF oldCap = 0 THEN 1 ELSE 2 * oldCap

\* append(s, x): in place when there is spare capacity, else a new array
\* of grown capacity; zero fills the unused tail
GoAppend(A, s, x, zero) ==
    IF s.len < s.cap
    THEN [a |-> [A EXCEPT ![s.arr][s.len + 1] = x],
          s |-> [s EXCEPT !.len = s.len + 1]]
    ELSE LET c == growCap(s.cap)
             fresh == [i \in 1..c |->
                         IF i <= s.len THEN A[s.arr][i]
                         ELSE IF i = s.len + 1 THEN x ELSE zero]
         IN [a |-> Append(A, fresh),
             s |-> [arr |-> Len(A) + 1, len |-> s.len + 1, cap |-> c]]

\* a slice header that shares the source backing array
aliasSlice(A, s) == [a |-> A, s |-> s]

\* append([]T(nil), s...): a fresh array holding the elements of s
copySlice(A, s) ==
    IF s.len = 0 THEN [a |-> A, s |-> NilSlice]
    ELSE [a |-> Append(A, Elems(A, s)),
          s |-> [arr |-> Len(A) + 1, len |-> s.len, cap |-> s.len]]

ZeroWhere == [clause |-> <<>>, args |-> <<>>]
ZeroText == <<>>
ZeroName == ""

-----------------------------------------------------------------------------
(* Query *)

Table == "users"
Columns == <<"id", "name">>
PK == "id"

\* the join definitions and preloaders the generated factory registers
PostsJoin == [TargetTable |-> "posts", TargetColumn |-> "user_id",
              SourceTable |-> "users", SourceColumn |-> "id"]

\* memory: the three heaps
Mem(Q, A, M) == [queries |-> Q, arrays |-> A, maps |-> M]

NewQuery ==
    [wheres |-> NilSlice, orderBys |-> NilSlice, joins |-> NilSlice,
     selects |-> NilPtr, limit |-> NilPtr, offset |-> NilPtr,
     joinDefs |-> 0, preloaders |-> 0, preloads |-> NilSlice]

RegisterJoin(m, q, name, cfg) ==
    IF m.queries[q].joinDefs = 0
    THEN [m EXCEPT !.maps = Append(m.maps, (name :> cfg)),
                   !.queries[q].joinDefs = Len(m.maps) + 1]
    ELSE LET id == m.queries[q].joinDefs
         IN [m EXCEPT !.maps[id] =
                [n \in DOMAIN m.maps[id] \cup {name} |->
                    IF n = name THEN cfg ELSE m.maps[id][n]]]

RegisterPreloader(m, q, name, fn) ==
    IF m.queries[q].preloaders = 0
    THEN [m EXCEPT !.maps = Append(m.maps, (name :> fn)),
                   !.queries[q].preloaders = Len(m.maps) + 1]
    ELSE LET id == m.queries[q].preloaders
         IN [m EXCEPT !.maps[id] =
                [n \in DOMAIN m.maps[id] \cup {name} |->
                    IF n = name THEN fn ELSE m.maps[id][n]]]

\* a builder that hands back its receiver instead of a copy
cloneSelf(m, q) == [m |-> m, id |-> q]

\* clone: q2 := *q, then every slice field copied into a fresh array
clone(m, q) ==
    LET src == m.queries[q]
        w == copySlice(m.arrays, src.wheres)
        o == copySlice(w.a, src.orderBys)
        j == copySlice(o.a, src.joins)
        p == copySlice(j.a, src.preloads)
        q2 == [src EXCEPT !.wheres = w.s, !.orderBys = o.s,
                          !.joins = j.s, !.preloads = p.s]
    IN [m |-> [m EXCEPT !.queries = Append(m.queries, q2), !.arrays = p.a],
        id |-> Len(m.queries) + 1]

\* the scope.Applier methods: they change the query they are called on
ApplyWhere(m, q, clause, args) ==
    LET r == GoAppend(m.arrays, m.queries[q].wheres,
                      [clause |-> clause, args |-> args], ZeroWhere)
    IN [m EXCEPT !.arrays = r.a, !.queries[q].wheres = r.s]

ApplyOrderBy(m, q, clause) ==
    LET r == GoAppend(m.arrays, m.queries[q].orderBys, clause, ZeroText)
    IN [m EXCEPT !.arrays = r.a, !.queries[q].orderBys = r.s]

ApplyLimit(m, q, n) == [m EXCEPT !.queries[q].limit = Ptr(n)]

ApplyOffset(m, q, n) == [m EXCEPT !.queries[q].offset = Ptr(n)]

ApplySelect(m, q, columns) ==
    [m EXCEPT !.queries[q].selects = Ptr(columns)]

\* the statements of Join/LeftJoin and Preload that follow the clone
appendJoin(m, q, clause) ==
    LET r == GoAppend(m.arrays, m.queries[q].joins, clause, ZeroText)
    IN [m EXCEPT !.arrays = r.a, !.queries[q].joins = r.s]

appendPreload(m, q, name) ==
    LET r == GoAppend(m.arrays, m.queries[q].preloads, name, ZeroName)
    IN [m EXCEPT !.arrays = r.a, !.queries[q].preloads = r.s]

\* cfg, ok := q.joinDefs[name]: a nil map has no entries
hasJoinDef(m, q, name) ==
    LET id == m.queries[q].joinDefs
    IN id # 0 /\ name \in DOMAIN m.maps[id]

joinDef(m, q, name) == m.maps[m.queries[q].joinDefs][name]

\* a join clause with the two sides of ON taken from the wrong tables
joinClauseSwapped(d, joinType, cfg) ==
    <<joinType, " ", QuoteIdent(d, cfg.TargetTable), " ON ",
      QuoteIdent(d, cfg.SourceTable), ".", QuoteIdent(d, cfg.TargetColumn),
      " = ",
      QuoteIdent(d, cfg.TargetTable), ".", QuoteIdent(d, cfg.SourceColumn)>>

\* the clause addJoin formats for a registered relation
joinClause(d, joinType, cfg) ==
    <<joinType, " ", QuoteIdent(d, cfg.TargetTable), " ON ",
      QuoteIdent(d, cfg.TargetTable), ".", QuoteIdent(d, cfg.TargetColumn),
      " = ",
      QuoteIdent(d, cfg.SourceTable), ".", QuoteIdent(d, cfg.SourceColumn)>>

\* an Apply that takes Limit for Offset and Offset for Limit
ScopeApplySwapped(m, q, s) ==
    CASE s.kind = "Where"   -> ApplyWhere(m, q, s.clause, s.args)
      [] s.kind = "OrderBy" -> ApplyOrderBy(m, q, s.clause)
      [] s.kind = "Limit"   -> ApplyOffset(m, q, s.n)
      [] s.kind = "Offset"  -> ApplyLimit(m, q, s.n)
      [] s.kind = "Select"  -> ApplySelect(m, q, s.clause)

\* scope.Scope.Apply: dispatch on the kind
ScopeApply(m, q, s) ==
    CASE s.kind = "Where"   -> ApplyWhere(m, q, s.clause, s.args)
      [] s.kind = "OrderBy" -> ApplyOrderBy(m, q, s.clause)
      [] s.kind = "Limit"   -> ApplyLimit(m, q, s.n)
      [] s.kind = "Offset"  -> ApplyOffset(m, q, s.n)
      [] s.kind = "Select"  -> ApplySelect(m, q, s.clause)

-----------------------------------------------------------------------------
(* The builder methods, each a whole call: memory in, memory and *Query out *)

Where(m, q, clause, args) ==
    LET c == clone(m, q)
    IN [m |-> ApplyWhere(c.m, c.id, clause, args), id |-> c.id]

OrderBy(m, q, clause) ==
    LET c == clone(m, q)
    IN [m |-> ApplyOrderBy(c.m, c.id, clause), id |-> c.id]

Limit(m, q, n) ==
    LET c == clone(m, q) IN [m |-> ApplyLimit(c.m, c.id, n), id |-> c.id]

Offset(m, q, n) ==
    LET c == clone(m, q) IN [m |-> ApplyOffset(c.m, c.id, n), id |-> c.id]

Select(m, q, columns) ==
    LET c == clone(m, q)
    IN [m |-> ApplySelect(c.m, c.id, columns), id |-> c.id]

addJoin(m, d, q, joinType, name) ==
    IF ~hasJoinDef(m, q, name) THEN [m |-> m, id |-> q]
    ELSE LET c == clone(m, q)
         IN [m |-> appendJoin(c.m, c.id,
                              joinClause(d, joinType, joinDef(m, q, name))),
             id |-> c.id]

Join(m, d, q, name) == addJoin(m, d, q, "INNER JOIN", name)

LeftJoin(m, d, q, name) == addJoin(m, d, q, "LEFT JOIN", name)

Preload(m, q, name) ==
    LET c == clone(m, q) IN [m |-> appendPreload(c.m, c.id, name), id |-> c.id]

RECURSIVE applyScopes(_, _, _)
applyScopes(m, q, scopes) ==
    IF Len(scopes) = 0 THEN m
    ELSE applyScopes(ScopeApply(m, q, scopes[1]), q, Tail(scopes))

Scopes(m, q, scopes) ==
    LET c == clone(m, q) IN [m |-> applyScopes(c.m, c.id, scopes), id |-> c.id]

-----------------------------------------------------------------------------
(* SQL building, on the fragments a query holds *)

\* the fields of a query, its slices read through their backing arrays
View(m, q) ==
    LET s == m.queries[q]
    IN [wheres |-> Elems(m.arrays, s.wheres),
        orderBys |-> Elems(m.arrays, s.orderBys),
        joins |-> Elems(m.arrays, s.joins),
        preloads |-> Elems(m.arrays, s.preloads),
        selects |-> s.selects, limit |-> s.limit, offset |-> s.offset]

qi(d, name) == <<QuoteIdent(d, name)>>

quoteColumns(d, cols) ==
    stringsJoin([i \in 1..Len(cols) |-> qi(d, cols[i])], <<", ">>)

appendWhere(v) ==
    IF Len(v.wheres) = 0 THEN [sql |-> <<>>, args |-> <<>>]
    ELSE [sql |-> <<" WHERE ">> \o
                  stringsJoin([i \in 1..Len(v.wheres) |-> v.wheres[i].clause],
                              <<" AND ">>),
          args |-> Flatten([i \in 1..Len(v.wheres) |-> v.wheres[i].args])]

limitOffset(v) ==
    (IF v.limit # NilPtr
     THEN <<" LIMIT ", ToString(Deref(v.limit))>> ELSE <<>>) \o
    (IF v.offset # NilPtr
     THEN <<" OFFSET ", ToString(Deref(v.offset))>> ELSE <<>>)

joinsText(v) == Flatten([i \in 1..Len(v.joins) |-> <<" ">> \o v.joins[i]])

\* a SELECT that puts ORDER BY ahead of WHERE
buildSelectOrderByFirst(d, v) ==
    LET w == appendWhere(v)
    IN [sql |-> <<"SELECT ">> \o
                (IF v.selects # NilPtr THEN Deref(v.selects)
                 ELSE quoteColumns(d, Columns))
                \o <<" FROM ">> \o qi(d, Table) \o joinsText(v) \o
                (IF Len(v.orderBys) > 0
                 THEN <<" ORDER BY ">> \o stringsJoin(v.orderBys, <<", ">>)
                 ELSE <<>>) \o
                w.sql \o limitOffset(v),
        args |-> w.args]

buildSelect(d, v) ==
    LET w == appendWhere(v)
    IN [sql |-> <<"SELECT ">> \o
                (IF v.selects # NilPtr THEN Deref(v.selects)
                 ELSE quoteColumns(d, Columns))
                \o <<" FROM ">> \o qi(d, Table) \o joinsText(v) \o w.sql \o
                (IF Len(v.orderBys) > 0
                 THEN <<" ORDER BY ">> \o stringsJoin(v.orderBys, <<", ">>)
                 ELSE <<>>) \o
                limitOffset(v),
        args |-> w.args]

buildCount(d, v) ==
    LET w == appendWhere(v)
    IN [sql |-> <<"SELECT COUNT(*) FROM ">> \o qi(d, Table) \o joinsText(v)
                \o w.sql \o limitOffset(v),
        args |-> w.args]

buildDelete(d, v) ==
    LET w == appendWhere(v)
    IN [sql |-> <<"DELETE FROM ">> \o qi(d, Table) \o w.sql, args |-> w.args]

buildUpdate(d, setCols) ==
    <<"UPDATE ">> \o qi(d, Table) \o <<" SET ">> \o
    stringsJoin([i \in 1..Len(setCols) |-> qi(d, setCols[i]) \o <<" = ", "?">>],
                <<", ">>) \o
    <<" WHERE ">> \o qi(d, PK) \o <<" = ", "?">>

\* the placeholder rewrite: the k-th '?' becomes the dialect's k-th
\* placeholder, every other byte is kept
\* a rewrite that numbers every placeholder alike
RECURSIVE rewriteFromSameIndex(_, _, _)
rewriteFromSameIndex(d, query, idx) ==
    IF Len(query) = 0 THEN <<>>
    ELSE IF query[1] = "?"
         THEN <<Placeholder(d, idx)>> \o rewriteFromSameIndex(d, Tail(query), idx)
         ELSE <<query[1]>> \o rewriteFromSameIndex(d, Tail(query), idx)

RECURSIVE rewriteFrom(_, _, _)
rewriteFrom(d, query, idx) ==
    IF Len(query) = 0 THEN <<>>
    ELSE IF query[1] = "?"
         THEN <<Placeholder(d, idx)>> \o rewriteFrom(d, Tail(query), idx + 1)
         ELSE <<query[1]>> \o rewriteFrom(d, Tail(query), idx)

rewrite(d, st) ==
    IF d = "mysql" THEN st
    ELSE [sql |-> rewriteFrom(d, st.sql, 1), args |-> st.args]

-----------------------------------------------------------------------------
(* The factory, and the builder calls the callers make *)

mem == Mem(queries, arrays, maps)

SetMem(m) ==
    /\ queries' = m.queries
    /\ arrays' = m.arrays
    /\ maps' = m.maps

\* the generated factory: NewQuery, then the relations of the type registered
Factory ==
    LET m0 == Mem(<<NewQuery>>, <<>>, <<>>)
        m1 == RegisterJoin(m0, 1, "Posts", PostsJoin)
    IN [m |-> RegisterPreloader(m1, 1, "Posts", "preloadPosts"), id |-> 1]

\* a builder call: the method and its arguments
Op(name) ==
    [name |-> name, clause |-> <<>>, args |-> <<>>, n |-> 0, rel |-> "",
     scopes |-> <<>>]

\* a scope.Scope value
Scope(kind, clause, args, n) ==
    [kind |-> kind, clause |-> clause, args |-> args, n |-> n]

\* the fragments caller c writes carry c, so that they can be told apart
ColOf(c) == "c" \o ToString(c)
WhereOp(c) ==
    [Op("Where") EXCEPT !.clause = <<ColOf(c) \o " = ", "?">>, !.args = <<c>>]
OrderByOp(c) == [Op("OrderBy") EXCEPT !.clause = <<ColOf(c) \o " DESC">>]
LimitOp(c) == [Op("Limit") EXCEPT !.n = 10 + c]
OffsetOp(c) == [Op("Offset") EXCEPT !.n = 20 + c]
SelectOp(c) == [Op("Select") EXCEPT !.clause = <<ColOf(c)>>]
JoinOp(rel) == [Op("Join") EXCEPT !.rel = rel]
LeftJoinOp(rel) == [Op("LeftJoin") EXCEPT !.rel = rel]
PreloadOp(rel) == [Op("Preload") EXCEPT !.rel = rel]
ScopesOp(scopes) == [Op("Scopes") EXCEPT !.scopes = scopes]

ScopeOf(op) == Scope(op.name, op.clause, op.args, op.n)

\* the calls a caller chooses among: between them the callers use every
\* builder method, and both add WHERE fragments
BuilderCalls(c) ==
    IF c = 1
    THEN { WhereOp(c), OrderByOp(c), LimitOp(c), JoinOp("Posts"),
           JoinOp("Nope"),
           ScopesOp(<<ScopeOf(WhereOp(c)), ScopeOf(LimitOp(c))>>) }
    ELSE { WhereOp(c), OffsetOp(c), SelectOp(c), LeftJoinOp("Posts"),
           LeftJoinOp("Nope"), PreloadOp("Posts"),
           ScopesOp(<<ScopeOf(OrderByOp(c)), ScopeOf(OffsetOp(c)),
                      ScopeOf(SelectOp(c))>>) }

\* the statement(s) of a builder method that follow its clone; for Scopes,
\* one iteration of its loop
applyOp(m, d, q2, op, recvCfg) ==
    CASE op.name = "Where"    -> ApplyWhere(m, q2, op.clause, op.args)
      [] op.name = "OrderBy"  -> ApplyOrderBy(m, q2, op.clause)
      [] op.name = "Limit"    -> ApplyLimit(m, q2, op.n)
      [] op.name = "Offset"   -> ApplyOffset(m, q2, op.n)
      [] op.name = "Select"   -> ApplySelect(m, q2, op.clause)
      [] op.name = "Join"     ->
            appendJoin(m, q2, joinClause(d, "INNER JOIN", recvCfg))
      [] op.name = "LeftJoin" ->
            appendJoin(m, q2, joinClause(d, "LEFT JOIN", recvCfg))
      [] op.name = "Preload"  -> appendPreload(m, q2, op.rel)

\* a whole builder call, for a caller that is alone
Build(m, d, q, op) ==
    CASE op.name = "Where"    -> Where(m, q, op.clause, op.args)
      [] op.name = "OrderBy"  -> OrderBy(m, q, op.clause)
      [] op.name = "Limit"    -> Limit(m, q, op.n)
      [] op.name = "Offset"   -> Offset(m, q, op.n)
      [] op.name = "Select"   -> Select(m, q, op.clause)
      [] op.name = "Join"     -> Join(m, d, q, op.rel)
      [] op.name = "LeftJoin" -> LeftJoin(m, d, q, op.rel)
      [] op.name = "Preload"  -> Preload(m, q, op.rel)
      [] op.name = "Scopes"   -> Scopes(m, q, op.scopes)

RECURSIVE BuildAll(_, _, _, _)
BuildAll(m, d, q, ops) ==
    IF Len(ops) = 0 THEN [m |-> m, id |-> q]
    ELSE LET r == Build(m, d, q, ops[1])
         IN BuildAll(r.m, d, r.id, Tail(ops))

\* the chains of calls that made the shared base
BaseRecipes ==
    { <<>>,
      <<WhereOp(0), WhereOp(0), WhereOp(0)>>,
      <<WhereOp(0), OrderByOp(0), LimitOp(0), JoinOp("Posts"),
        PreloadOp("Posts")>> }

-----------------------------------------------------------------------------
(* What a builder call is meant to yield: the receiver's fragments and the *)
(* call's own, as values                                                   *)

AbsScope(v, s) ==
    CASE s.kind = "Where" ->
            [v EXCEPT !.wheres = Append(@, [clause |-> s.clause, args |-> s.args])]
      [] s.kind = "OrderBy" -> [v EXCEPT !.orderBys = Append(@, s.clause)]
      [] s.kind = "Limit" -> [v EXCEPT !.limit = Ptr(s.n)]
      [] s.kind = "Offset" -> [v EXCEPT !.offset = Ptr(s.n)]
      [] s.kind = "Select" -> [v EXCEPT !.selects = Ptr(s.clause)]

RECURSIVE AbsScopes(_, _)
AbsScopes(v, ss) ==
    IF Len(ss) = 0 THEN v ELSE AbsScopes(AbsScope(v, ss[1]), Tail(ss))

AbsApply(v, d, op) ==
    CASE op.name \in {"Where", "OrderBy", "Limit", "Offset", "Select"} ->
            AbsScope(v, ScopeOf(op))
      [] op.name = "Join" ->
            [v EXCEPT !.joins = Append(@, joinClause(d, "INNER JOIN", PostsJoin))]
      [] op.name = "LeftJoin" ->
            [v EXCEPT !.joins = Append(@, joinClause(d, "LEFT JOIN", PostsJoin))]
      [] op.name = "Preload" -> [v EXCEPT !.preloads = Append(@, op.rel)]
      [] op.name = "Scopes" -> AbsScopes(v, op.scopes)


\* the idle state of DB.Transaction and of the storage behind it
NoErr == "nil"
NoPanic == "none"

\* the errors fn may return and the values it may panic with
FnErrors == {"fnErr1", "fnErr2"}
FnPanics == {"boom"}

\* what Begin, Commit and Rollback of the driver may fail with
BeginErr == "begin failed"
CommitErr == "commit failed"
RollbackErr == "rollback failed"
ErrTxDone == "sql: transaction has already been committed or rolled back"

NoOutcome == [kind |-> "none", val |-> NoErr]

NewCall ==
    [begun |-> FALSE, row |-> 0, fn |-> NoOutcome, commit |-> "none",
     rollback |-> "none", log |-> <<>>, out |-> NoOutcome]

TxIdle ==
    /\ txpc = "idle"
    /\ err = NoErr
    /\ panicking = NoPanic
    /\ cur = NewCall
    /\ hist = <<>>
    /\ committed = {}
    /\ pending = {}
    /\ txopen = FALSE
    /\ seen = {}
    /\ seenAfter = 0

\* the errors of the terminal methods
ErrNotFound == "orm: not found"
ErrDeleteWithoutWhere == "orm: Delete without WHERE clause is not allowed"
ErrMissingPrimaryKey == "orm: primary key value is required for Update"
ErrUpdatesWithoutWhere == "orm: Updates without WHERE clause is not allowed"
ErrUnknownPreload(name) == "orm: unknown preload \"" \o name \o "\""

\* what the connection, the decode function and a preload function may fail
\* with
QueryErr == "query failed"
ExecErr == "exec failed"
ScanErr == "scan failed"
RowsErr == "rows failed"
PreloadErr == "preload failed"

\* an interface value (any): nil, or a box around a value
NilAny == <<>>
Box(x) == <<x>>

\* what the connection answers to an INSERT: the ids of the rows a RETURNING
\* statement yields, or the LastInsertId of the result
Resp(kind, ids, scanErrAt, rowsErr, lastIDErr) ==
    [kind |-> kind, ids |-> ids, scanErrAt |-> scanErrAt,
     rowsErr |-> rowsErr, lastIDErr |-> lastIDErr]

NoResp == Resp("none", <<>>, 0, FALSE, FALSE)

\* time.Time{}: the zero time
ZeroTime == 0

\* the created-at and updated-at columns registered on a query
Stamps(createdAt, updatedAt) == [createdAt |-> createdAt, updatedAt |-> updatedAt]

NoStamps == Stamps(<<>>, <<>>)

\* the state before any terminal method is called
NewTerm ==
    [pc |-> "idle", meth |-> "none", q |-> 0, q2 |-> 0, nops |-> 0,
     view0 |-> <<>>, arg |-> <<>>, n |-> 0, result |-> <<>>, i |-> 0,
     iterErr |-> NoErr, items |-> <<>>, allErr |-> NoErr, err |-> NoErr,
     val |-> <<>>, setPK |-> TRUE, resp |-> NoResp,
     clock |-> ZeroTime, stamps |-> NoStamps, calls |-> <<>>]

TermIdle ==
    /\ term = NewTerm
    /\ sent = <<>>
    /\ tlog = <<>>

\* no function applied, no Scopes held
NoPure == [fn |-> "none", in |-> <<>>, out |-> <<>>]

NoSlices ==
    [a |-> NilSlice, b |-> NilSlice, r |-> NilSlice, op |-> "none",
     a0 |-> <<>>, b0 |-> <<>>, r0 |-> <<>>,
     aexp |-> <<>>, bexp |-> <<>>, rexp |-> <<>>, nw |-> 0]

AuxIdle ==
    /\ pure = NoPure
    /\ sl = NoSlices



-----------------------------------------------------------------------------
(* Concurrent derivation: each caller runs builder calls step by step *)

Idle == [pc |-> "idle", op |-> Op("none"), recv |-> 0, q2 |-> 0,
         rest |-> <<>>, want |-> <<>>]

NoRet == [op |-> Op("none"), recv |-> 0, res |-> 0]

InitBuild ==
    \E d \in Dialects, recipe \in BaseRecipes :
        LET b == BuildAll(Factory.m, d, Factory.id, recipe)
        IN /\ dialect = d
           /\ queries = b.m.queries
           /\ arrays = b.m.arrays
           /\ maps = b.m.maps
           /\ base = b.id
           /\ published = {b.id}
           /\ expect = (b.id :> View(b.m, b.id))
           /\ snap = (b.id :> View(b.m, b.id))
           /\ call = [c \in Callers |-> Idle]
           /\ ret = [c \in Callers |-> NoRet]
           /\ TxIdle
           /\ TermIdle
           /\ AuxIdle
           /\ nderived = 0

\* the caller enters a builder method on a query it holds; Join and LeftJoin
\* look the relation up first and return the receiver when it is unknown
Call(c) ==
    /\ call[c].pc = "idle"
    /\ nderived < MaxDerive
    /\ \E op \in BuilderCalls(c),
          recv \in ({base} \cup {ret[c].res}) \ {0} :
        /\ nderived' = nderived + 1
        /\ IF op.name \in {"Join", "LeftJoin"} /\ ~hasJoinDef(mem, recv, op.rel)
           THEN /\ ret' = [ret EXCEPT ![c] =
                              [op |-> op, recv |-> recv, res |-> recv]]
                /\ UNCHANGED call
           ELSE /\ call' = [call EXCEPT ![c] =
                              [pc |-> "clone", op |-> op, recv |-> recv,
                               q2 |-> 0, rest |-> op.scopes,
                               want |-> AbsApply(expect[recv], dialect, op)]]
                /\ UNCHANGED ret
    /\ UNCHANGED <<heapVars, published, expect, snap, base, txVars, termVars, auxVars>>

\* q2 := q.clone()
CloneStep(c) ==
    /\ call[c].pc = "clone"
    /\ LET r == clone(mem, call[c].recv)
       IN /\ SetMem(r.m)
          /\ call' = [call EXCEPT ![c].q2 = r.id,
                                  ![c].pc = "apply"]
    /\ UNCHANGED <<dialect, ret, published, expect, snap, base, nderived, txVars, termVars, auxVars>>

\* the method's own change to q2; Scopes applies one scope per step
ApplyStep(c) ==
    /\ call[c].pc = "apply"
    /\ LET cl == call[c]
       IN IF cl.op.name = "Scopes"
          THEN IF Len(cl.rest) = 0
               THEN /\ call' = [call EXCEPT ![c].pc = "return"]
                    /\ UNCHANGED <<queries, arrays, maps>>
               ELSE /\ SetMem(ScopeApply(mem, cl.q2, cl.rest[1]))
                    /\ call' = [call EXCEPT ![c].rest = Tail(cl.rest)]
          ELSE /\ SetMem(applyOp(mem, dialect, cl.q2, cl.op,
                                 IF cl.op.name \in {"Join", "LeftJoin"}
                                 THEN joinDef(mem, cl.recv, cl.op.rel)
                                 ELSE PostsJoin))
               /\ call' = [call EXCEPT ![c].pc = "return"]
    /\ UNCHANGED <<dialect, ret, published, expect, snap, base, nderived, txVars, termVars, auxVars>>

\* return q2: the caller now holds the derived query
Return(c) ==
    /\ call[c].pc = "return"
    /\ ret' = [ret EXCEPT ![c] =
                  [op |-> call[c].op, recv |-> call[c].recv, res |-> call[c].q2]]
    /\ published' = published \cup {call[c].q2}
    /\ expect' = expect @@ (call[c].q2 :> call[c].want)
    /\ snap' = snap @@ (call[c].q2 :> View(mem, call[c].q2))
    /\ call' = [call EXCEPT ![c] = Idle]
    /\ UNCHANGED <<heapVars, base, nderived, txVars, termVars, auxVars>>

NextBuild == \E c \in Callers : Call(c) \/ CloneStep(c) \/ ApplyStep(c) \/ Return(c)

SpecBuild == InitBuild /\ [][NextBuild]_vars

-----------------------------------------------------------------------------
(* Claims about the builder *)

\* what the terminal methods of q send: the SELECT of All and First, the
\* COUNT of Count and Exists, the DELETE of Delete, each after the placeholder
\* rewrite, and the preloads All runs
Sent(d, v) ==
    [select |-> rewrite(d, buildSelect(d, v)),
     count |-> rewrite(d, buildCount(d, v)),
     delete |-> rewrite(d, buildDelete(d, v)),
     preloads |-> v.preloads]

Observable(m, d, q) == Sent(d, View(m, q))

\* C1: whatever builder calls (Where, OrderBy, Limit, Offset, Select, Join,
\* LeftJoin, Preload, Scopes) were made since, in whatever number and order
\* and on whatever query, the SQL text and the arguments that the terminal
\* methods of a query send are those they would have sent when the caller
\* got the query.
C1_BuilderKeepsReceiverSQL ==
    \A q \in published : Observable(mem, dialect, q) = Sent(dialect, snap[q])

\* C1 witness: a builder call on the base has returned a query that sends
\* other SQL than the base does.
C1_Witness ==
    \E c \in Callers :
        /\ ret[c].res # 0
        /\ ret[c].recv = base
        /\ ret[c].res # base
        /\ Observable(mem, dialect, ret[c].res).select
              # Observable(mem, dialect, base).select

\* C2: every builder call returns a Query other than its receiver, Join and
\* LeftJoin with a relation name that was never registered included.
C2_BuilderReturnsNewQuery ==
    \A c \in Callers : ret[c].res # 0 => ret[c].res # ret[c].recv

\* C3: under every interleaving of the callers' steps, every query a caller
\* holds has exactly the fragments it was built to have: the base its own,
\* a derived query those of its receiver followed by the additions of its
\* own call (predicates, orderings, joins, preloads, limit, offset, select).
C3_ConcurrentDerivationIsolated ==
    \A q \in published : View(mem, q) = expect[q]

\* C3 witness: two callers derive from the base at once: one has returned
\* its query, built from a clone made after the clone of the other, which
\* is still inside its call.
C3_Witness ==
    \E c1 \in Callers, c2 \in Callers :
        /\ c1 # c2
        /\ call[c1].pc = "apply"
        /\ call[c1].recv = base
        /\ ret[c2].res # 0
        /\ ret[c2].recv = base
        /\ ret[c2].res > call[c1].q2
        /\ View(mem, ret[c2].res) # View(mem, base)

-----------------------------------------------------------------------------
(* DB.Transaction, and the storage behind the connection *)

HeapIdle ==
    /\ dialect = "mysql"
    /\ queries = Factory.m.queries
    /\ arrays = Factory.m.arrays
    /\ maps = Factory.m.maps

BuildIdle ==
    /\ base = Factory.id
    /\ published = {Factory.id}
    /\ expect = (Factory.id :> View(Factory.m, Factory.id))
    /\ snap = (Factory.id :> View(Factory.m, Factory.id))
    /\ call = [c \in Callers |-> Idle]
    /\ ret = [c \in Callers |-> NoRet]
    /\ nderived = 0

InitTx == HeapIdle /\ BuildIdle /\ TxIdle /\ TermIdle /\ AuxIdle

\* a caller enters db.Transaction(ctx, fn)
Transaction ==
    /\ txpc = "idle"
    /\ Len(hist) < MaxTx
    /\ txpc' = "begin"
    /\ err' = NoErr
    /\ panicking' = NoPanic
    /\ cur' = NewCall
    /\ UNCHANGED <<hist, committed, pending, txopen, seen, seenAfter>>
    /\ UNCHANGED <<heapVars, buildVars, termVars, auxVars>>

\* tx, err := db.Begin(ctx); if err != nil { return err }
Begin ==
    /\ txpc = "begin"
    /\ \/ /\ txopen' = TRUE
          /\ pending' = {}
          /\ err' = NoErr
          /\ cur' = [cur EXCEPT !.begun = TRUE, !.log = Append(@, "Begin")]
          /\ txpc' = "fn"
          /\ UNCHANGED hist
       \/ /\ err' = BeginErr
          /\ hist' = Append(hist, [cur EXCEPT !.out =
                                      [kind |-> "return", val |-> BeginErr]])
          /\ txpc' = "idle"
          /\ UNCHANGED <<cur, txopen, pending>>
    /\ UNCHANGED <<panicking, committed, seen, seenAfter>>
    /\ UNCHANGED <<heapVars, buildVars, termVars, auxVars>>

\* inside fn: an INSERT through the transaction handle (Tx.ExecContext or
\* Tx.QueryContext); the row is the one of this Transaction call
FnInsert ==
    /\ txpc = "fn"
    /\ cur.row = 0
    /\ ~("insert failed" \in {cur.log[i] : i \in 1..Len(cur.log)})
    /\ \/ /\ pending' = pending \cup {Len(hist) + 1}
          /\ cur' = [cur EXCEPT !.row = Len(hist) + 1,
                                !.log = Append(@, "insert")]
       \/ /\ cur' = [cur EXCEPT !.log = Append(@, "insert failed")]
          /\ UNCHANGED pending
    /\ UNCHANGED <<txpc, err, panicking, hist, committed, txopen, seen,
                   seenAfter>>
    /\ UNCHANGED <<heapVars, buildVars, termVars, auxVars>>

\* fn returns without committing whatever it returned
FnReturnNoCommit ==
    /\ txpc = "fn"
    /\ \E v \in {NoErr} \cup FnErrors :
        /\ err' = v
        /\ cur' = [cur EXCEPT !.fn = [kind |-> IF v = NoErr THEN "nil" ELSE "err",
                                      val |-> v]]
        /\ txpc' = "defer"
    /\ UNCHANGED <<panicking, hist, committed, pending, txopen, seen, seenAfter>>
    /\ UNCHANGED <<heapVars, buildVars, termVars, auxVars>>

\* err = fn(tx); if err != nil { return err }
FnReturn ==
    /\ txpc = "fn"
    /\ \E v \in {NoErr} \cup FnErrors :
        /\ err' = v
        /\ cur' = [cur EXCEPT !.fn = [kind |-> IF v = NoErr THEN "nil" ELSE "err",
                                      val |-> v]]
        /\ txpc' = IF v # NoErr THEN "defer" ELSE "commit"
    /\ UNCHANGED <<panicking, hist, committed, pending, txopen, seen, seenAfter>>
    /\ UNCHANGED <<heapVars, buildVars, termVars, auxVars>>

\* fn panics: the deferred function runs with the panic in flight
FnPanic ==
    /\ txpc = "fn"
    /\ \E p \in FnPanics :
        /\ panicking' = p
        /\ cur' = [cur EXCEPT !.fn = [kind |-> "panic", val |-> p]]
    /\ txpc' = "defer"
    /\ UNCHANGED <<err, hist, committed, pending, txopen, seen, seenAfter>>
    /\ UNCHANGED <<heapVars, buildVars, termVars, auxVars>>

\* fn ends its goroutine (runtime.Goexit, as t.FailNow and t.Fatal do): the
\* deferred function runs with no panic in flight and err as Begin left it
FnGoexit ==
    /\ txpc = "fn"
    /\ cur' = [cur EXCEPT !.fn = [kind |-> "goexit", val |-> NoErr]]
    /\ txpc' = "defer"
    /\ UNCHANGED <<err, panicking, hist, committed, pending, txopen, seen,
                   seenAfter>>
    /\ UNCHANGED <<heapVars, buildVars, termVars, auxVars>>

\* return tx.Commit(): the result is assigned to err before the deferred
\* function runs; a commit that fails leaves nothing written
Commit ==
    /\ txpc = "commit"
    /\ \/ /\ committed' = committed \cup pending
          /\ err' = NoErr
          /\ cur' = [cur EXCEPT !.commit = "ok", !.log = Append(@, "Commit")]
       \/ /\ err' = CommitErr
          /\ cur' = [cur EXCEPT !.commit = "err", !.log = Append(@, "Commit")]
          /\ UNCHANGED committed
    /\ pending' = {}
    /\ txopen' = FALSE
    /\ txpc' = "defer"
    /\ UNCHANGED <<panicking, hist, seen, seenAfter>>
    /\ UNCHANGED <<heapVars, buildVars, termVars, auxVars>>

\* Tx.Rollback: drops what the open transaction wrote, whether or not the
\* driver reports a failure; on an ended transaction it only fails
RollbackResults == IF txopen THEN {NoErr, RollbackErr} ELSE {ErrTxDone}

\* a deferred function that looks at err only, not at a panic
DeferCleanupNoRecover ==
    /\ txpc = "defer"
    /\ IF err # NoErr
       THEN \E rb \in RollbackResults :
              /\ cur' = [cur EXCEPT !.rollback = rb,
                                    !.log = Append(@, "Rollback")]
              /\ pending' = {}
              /\ txopen' = FALSE
       ELSE UNCHANGED <<cur, pending, txopen>>
    /\ txpc' = "exit"
    /\ UNCHANGED <<err, panicking, hist, committed, seen, seenAfter>>
    /\ UNCHANGED <<heapVars, buildVars, termVars, auxVars>>

\* a deferred function that hands on what Rollback returned
DeferCleanupKeepsRollbackErr ==
    /\ txpc = "defer"
    /\ IF panicking # NoPanic \/ err # NoErr
       THEN \E rb \in RollbackResults :
              /\ cur' = [cur EXCEPT !.rollback = rb,
                                    !.log = Append(@, "Rollback")]
              /\ pending' = {}
              /\ txopen' = FALSE
              /\ err' = IF rb # NoErr /\ panicking = NoPanic THEN rb ELSE err
              /\ panicking' = IF rb # NoErr /\ panicking # NoPanic
                              THEN rb ELSE panicking
       ELSE UNCHANGED <<cur, pending, txopen, err, panicking>>
    /\ txpc' = "exit"
    /\ UNCHANGED <<hist, committed, seen, seenAfter>>
    /\ UNCHANGED <<heapVars, buildVars, termVars, auxVars>>

\* the deferred function up to its Rollback:
\*   if p := recover(); p != nil { _ = tx.Rollback(); ... }
\*   if err != nil { _ = tx.Rollback() }
DeferCleanup ==
    /\ txpc = "defer"
    /\ IF panicking # NoPanic \/ err # NoErr
       THEN \E rb \in RollbackResults :
              /\ cur' = [cur EXCEPT !.rollback = rb,
                                    !.log = Append(@, "Rollback")]
              /\ pending' = {}
              /\ txopen' = FALSE
       ELSE UNCHANGED <<cur, pending, txopen>>
    /\ txpc' = "exit"
    /\ UNCHANGED <<err, panicking, hist, committed, seen, seenAfter>>
    /\ UNCHANGED <<heapVars, buildVars, termVars, auxVars>>

\* control leaves Transaction: panic(p) goes on to the caller, or err is
\* returned, or the goroutine ends
DeferExit ==
    /\ txpc = "exit"
    /\ LET out == IF panicking # NoPanic
                  THEN [kind |-> "panic", val |-> panicking]
                  ELSE IF cur.fn.kind = "goexit"
                  THEN [kind |-> "goexit", val |-> NoErr]
                  ELSE [kind |-> "return", val |-> err]
       IN hist' = Append(hist,
                    [cur EXCEPT !.out = out,
                                !.log = IF panicking # NoPanic
                                        THEN Append(@, "panic") ELSE @])
    /\ txpc' = "idle"
    /\ UNCHANGED <<err, panicking, cur, committed, pending, txopen, seen,
                   seenAfter>>
    /\ UNCHANGED <<heapVars, buildVars, termVars, auxVars>>

\* a query on the original connection, outside any transaction
OrigQuery ==
    /\ seen' = committed
    /\ seenAfter' = Len(hist)
    /\ UNCHANGED <<txpc, err, panicking, cur, hist, committed, pending, txopen>>
    /\ UNCHANGED <<heapVars, buildVars, termVars, auxVars>>

NextTx ==
    \/ Transaction
    \/ Begin
    \/ FnInsert
    \/ FnReturn
    \/ FnPanic
    \/ FnGoexit
    \/ Commit
    \/ DeferCleanup
    \/ DeferExit
    \/ OrigQuery

SpecTx == InitTx /\ [][NextTx]_vars

-----------------------------------------------------------------------------
(* Transaction: what is checked *)

Has(log, ev) == \E i \in 1..Len(log) : log[i] = ev

Before(log, a, b) ==
    \E i, j \in 1..Len(log) : i < j /\ log[i] = a /\ log[j] = b

Returned(h, v) == h.out = [kind |-> "return", val |-> v]

Panicked(h, p) == h.out = [kind |-> "panic", val |-> p]

\* C6: Transaction commits exactly when fn returns nil; when fn returns an
\* error the transaction is rolled back and Transaction returns that error;
\* when fn panics Rollback is invoked before the panic goes on to the caller.
C6_CommitIffFnReturnsNil ==
    /\ Has(cur.log, "Commit") => cur.fn.kind = "nil"
    /\ \A k \in 1..Len(hist) :
        LET h == hist[k] IN
        h.begun =>
          /\ Has(h.log, "Commit") <=> h.fn.kind = "nil"
          /\ h.fn.kind = "err" =>
                Has(h.log, "Rollback") /\ Returned(h, h.fn.val)
          /\ h.fn.kind = "panic" =>
                Before(h.log, "Rollback", "panic") /\ Panicked(h, h.fn.val)

C6_Witness ==
    /\ \E k \in 1..Len(hist) :
          hist[k].fn.kind = "panic" /\ Before(hist[k].log, "Rollback", "panic")
    /\ \E k \in 1..Len(hist) :
          hist[k].fn.kind = "nil" /\ Has(hist[k].log, "Commit")

\* C7: whatever Rollback returns in the deferred cleanup, the error fn
\* returned is the one Transaction returns and the value fn panicked with is
\* the one the panic carries on.
C7_RollbackResultDiscarded ==
    \A k \in 1..Len(hist) :
        LET h == hist[k] IN
        h.rollback # "none" =>
          /\ h.fn.kind = "err" => h.out.kind = "return" /\ h.out.val = h.fn.val
          /\ h.fn.kind = "panic" => h.out.kind = "panic" /\ h.out.val = h.fn.val

C7_Witness ==
    /\ \E k \in 1..Len(hist) :
          /\ hist[k].rollback = RollbackErr
          /\ hist[k].fn.kind = "err"
          /\ hist[k].out.val = hist[k].fn.val
    /\ \E k \in 1..Len(hist) :
          /\ hist[k].rollback = RollbackErr
          /\ hist[k].fn.kind = "panic"
          /\ hist[k].out.val = hist[k].fn.val

\* what a query on the original connection shows of row r once Transaction
\* call k has ended
Visible(k, r) == r \in committed /\ (seenAfter >= k => r \in seen)

Invisible(k, r) == r \notin committed /\ (seenAfter >= k => r \notin seen)

\* C8 (as written): a row fn inserted and then returned an error for is not
\* visible on the original connection after Transaction returned that error;
\* a row fn inserted and then returned nil for is visible afterwards.
C8_RowVisibleIffFnReturnsNil ==
    \A k \in 1..Len(hist) :
        LET h == hist[k] IN
        h.row # 0 =>
          /\ (h.fn.kind = "err" /\ Returned(h, h.fn.val)) => Invisible(k, h.row)
          /\ h.fn.kind = "nil" => Visible(k, h.row)

\* C8 (amended): a row fn inserted and then returned an error for is not
\* visible on the original connection after Transaction returned that error;
\* a row fn inserted and then returned nil for is visible afterwards when
\* Commit succeeded, that is when Transaction returned nil.
C8_RowVisibleIffCommitted ==
    \A k \in 1..Len(hist) :
        LET h == hist[k] IN
        h.row # 0 =>
          /\ (h.fn.kind = "err" /\ Returned(h, h.fn.val)) => Invisible(k, h.row)
          /\ (h.fn.kind = "nil" /\ Returned(h, NoErr)) => Visible(k, h.row)

C8_Witness ==
    /\ \E k \in 1..Len(hist) :
          /\ hist[k].row # 0
          /\ hist[k].fn.kind = "err"
          /\ Returned(hist[k], hist[k].fn.val)
          /\ seenAfter >= k
          /\ hist[k].row \notin seen
    /\ \E k \in 1..Len(hist) :
          /\ hist[k].row # 0
          /\ hist[k].fn.kind = "nil"
          /\ Returned(hist[k], NoErr)
          /\ seenAfter >= k
          /\ hist[k].row \in seen

-----------------------------------------------------------------------------
(* The terminal methods, one caller, against a connection that may fail *)

\* the factory of a type with two relations to preload
TermFactory ==
    [m |-> RegisterPreloader(Factory.m, Factory.id, "Comments",
                             "preloadComments"),
     id |-> Factory.id]

\* the builder calls the caller chooses among before the terminal method
TermCalls ==
    { WhereOp(1), OrderByOp(1), LimitOp(1), OffsetOp(1), SelectOp(1),
      JoinOp("Posts"), PreloadOp("Posts"), PreloadOp("Comments"),
      PreloadOp("Nope") }

\* the values Update is called with
TestUsers == { [ID |-> 0, Name |-> "bob"], [ID |-> 7, Name |-> "bob"] }

\* the column-to-value map Updates is called with
UpdatesMap == [cols |-> <<"name">>, vals |-> <<"new name">>]

testUserColValPairs(u, includesPK) ==
    IF includesPK
    THEN [cols |-> <<"id", "name">>, vals |-> <<Box(u.ID), Box(u.Name)>>]
    ELSE [cols |-> <<"name">>, vals |-> <<Box(u.Name)>>]

\* a statement as the connection receives it
Stmt(kind, st) == [kind |-> kind, sql |-> st.sql, args |-> st.args]

Event(ev, name, rows) == [ev |-> ev, name |-> name, rows |-> rows]

\* the rows a SELECT can return: the table holds up to MaxRows matching rows
\* and the engine returns no more than the LIMIT of the statement
LimitCap(sql) ==
    IF \E i \in 1..(Len(sql) - 1), k \in 0..MaxRows :
          sql[i] = " LIMIT " /\ sql[i + 1] = ToString(k)
    THEN CHOOSE k \in 0..MaxRows :
            \E i \in 1..(Len(sql) - 1) :
                sql[i] = " LIMIT " /\ sql[i + 1] = ToString(k)
    ELSE MaxRows

\* fn, ok := q.preloaders[name]
hasPreloader(m, q, name) ==
    LET id == m.queries[q].preloaders
    IN id # 0 /\ name \in DOMAIN m.maps[id]

\* the name the preload loop of All reaches at its i-th iteration
preloadAtReversed(v, i) == v.preloads[Len(v.preloads) + 1 - i]

preloadAt(v, i) == v.preloads[i]

\* bulk Updates: the SET list from the map, the accumulated WHERE after it
buildUpdates(d, v, setCols, setVals) ==
    LET w == appendWhere(v)
    IN [sql |-> <<"UPDATE ">> \o qi(d, Table) \o <<" SET ">> \o
                stringsJoin([i \in 1..Len(setCols) |->
                                qi(d, setCols[i]) \o <<" = ", "?">>],
                            <<", ">>) \o w.sql,
        args |-> setVals \o w.args]

InitTerm ==
    /\ dialect \in Dialects
    /\ queries = TermFactory.m.queries
    /\ arrays = TermFactory.m.arrays
    /\ maps = TermFactory.m.maps
    /\ BuildIdle
    /\ TxIdle
    /\ \E sp \in BOOLEAN :
          term = [NewTerm EXCEPT !.q = TermFactory.id, !.setPK = sp]
    /\ sent = <<>>
    /\ tlog = <<>>
    /\ AuxIdle

\* a builder call on the query the caller holds; the caller goes on with
\* the query it returns
TermBuild ==
    /\ term.pc = "idle"
    /\ term.nops < MaxTermOps
    /\ \E op \in TermCalls :
        LET b == Build(mem, dialect, term.q, op)
        IN /\ SetMem(b.m)
           /\ term' = [term EXCEPT !.q = b.id, !.nops = @ + 1]
    /\ UNCHANGED <<dialect, sent, tlog, buildVars, txVars, auxVars>>

\* Delete, were it to send its statement whatever the WHERE list holds
DeleteUnguarded ==
    /\ term.pc = "idle"
    /\ LET v == View(mem, term.q)
       IN \E r \in {NoErr, ExecErr} :
            /\ sent' = Append(sent, Stmt("exec",
                          rewrite(dialect, buildDelete(dialect, v))))
            /\ term' = [term EXCEPT !.pc = "done", !.meth = "Delete",
                                    !.view0 = v, !.err = r]
    /\ UNCHANGED <<heapVars, tlog, buildVars, txVars, auxVars>>

Delete ==
    /\ term.pc = "idle"
    /\ LET v == View(mem, term.q)
       IN IF Len(v.wheres) = 0
          THEN /\ term' = [term EXCEPT !.pc = "done", !.meth = "Delete",
                                       !.view0 = v,
                                       !.err = ErrDeleteWithoutWhere]
               /\ UNCHANGED sent
          ELSE \E r \in {NoErr, ExecErr} :
                 /\ sent' = Append(sent, Stmt("exec",
                               rewrite(dialect, buildDelete(dialect, v))))
                 /\ term' = [term EXCEPT !.pc = "done", !.meth = "Delete",
                                         !.view0 = v, !.err = r]
    /\ UNCHANGED <<heapVars, tlog, buildVars, txVars, auxVars>>

Updates ==
    /\ term.pc = "idle"
    /\ LET v == View(mem, term.q)
       IN IF Len(v.wheres) = 0
          THEN /\ term' = [term EXCEPT !.pc = "done", !.meth = "Updates",
                                       !.view0 = v, !.arg = UpdatesMap,
                                       !.err = ErrUpdatesWithoutWhere]
               /\ UNCHANGED sent
          ELSE \E r \in {NoErr, ExecErr} :
                 /\ sent' = Append(sent, Stmt("exec",
                               rewrite(dialect,
                                   buildUpdates(dialect, v, UpdatesMap.cols,
                                                UpdatesMap.vals))))
                 /\ term' = [term EXCEPT !.pc = "done", !.meth = "Updates",
                                         !.view0 = v, !.arg = UpdatesMap,
                                         !.err = r]
    /\ UNCHANGED <<heapVars, tlog, buildVars, txVars, auxVars>>

\* Update: the loop over colValPairs(t, true), the pkVal == nil test, the
\* statement
Update ==
    /\ term.pc = "idle"
    /\ \E t \in TestUsers :
        LET p == testUserColValPairs(t, TRUE)
            idx == 1..Len(p.cols)
            setIdx == SelectSeq([i \in idx |-> i], LAMBDA i : p.cols[i] # PK)
            setCols == [k \in 1..Len(setIdx) |-> p.cols[setIdx[k]]]
            setVals == [k \in 1..Len(setIdx) |-> p.vals[setIdx[k]][1]]
            pkVal == IF \E i \in idx : p.cols[i] = PK
                     THEN p.vals[CHOOSE i \in idx :
                                   /\ p.cols[i] = PK
                                   /\ \A j \in idx : p.cols[j] = PK => j <= i]
                     ELSE NilAny
            v == View(mem, term.q)
        IN IF pkVal = NilAny
           THEN /\ term' = [term EXCEPT !.pc = "done", !.meth = "Update",
                                        !.view0 = v, !.arg = t,
                                        !.err = ErrMissingPrimaryKey]
                /\ UNCHANGED sent
           ELSE \E r \in {NoErr, ExecErr} :
                  /\ sent' = Append(sent, Stmt("exec",
                                rewrite(dialect,
                                    [sql |-> buildUpdate(dialect, setCols),
                                     args |-> Append(setVals, pkVal[1])])))
                  /\ term' = [term EXCEPT !.pc = "done", !.meth = "Update",
                                          !.view0 = v, !.arg = t, !.err = r]
    /\ UNCHANGED <<heapVars, tlog, buildVars, txVars, auxVars>>

\* First, were it to run All on the receiver as it is
FirstNoLimit ==
    /\ term.pc = "idle"
    /\ term' = [term EXCEPT !.pc = "all.query", !.meth = "First",
                            !.view0 = View(mem, term.q), !.q2 = term.q]
    /\ UNCHANGED <<heapVars, sent, tlog, buildVars, txVars, auxVars>>

\* First: q2 := q.Limit(1), then q2.All(ctx)
First ==
    /\ term.pc = "idle"
    /\ LET b == Limit(mem, term.q, 1)
       IN /\ SetMem(b.m)
          /\ term' = [term EXCEPT !.pc = "all.query", !.meth = "First",
                                  !.view0 = View(mem, term.q), !.q2 = b.id]
    /\ UNCHANGED <<dialect, sent, tlog, buildVars, txVars, auxVars>>

\* All called by the caller on the query it holds
All ==
    /\ term.pc = "idle"
    /\ term' = [term EXCEPT !.pc = "all.query", !.meth = "All",
                            !.view0 = View(mem, term.q), !.q2 = term.q]
    /\ UNCHANGED <<heapVars, sent, tlog, buildVars, txVars, auxVars>>

\* return items, err from All
AllReturn(t, items, e) ==
    [t EXCEPT !.items = items, !.allErr = e,
              !.pc = IF t.meth = "First" THEN "first.ret" ELSE "done",
              !.err = IF t.meth = "First" THEN @ ELSE e,
              !.val = IF t.meth = "First" THEN @ ELSE items]

\* buildSelect, rewrite, QueryContext
AllQuery ==
    /\ term.pc = "all.query"
    /\ LET st == rewrite(dialect, buildSelect(dialect, View(mem, term.q2)))
       IN /\ sent' = Append(sent, Stmt("query", st))
          /\ \/ /\ term' = AllReturn(term, <<>>, QueryErr)
                /\ UNCHANGED tlog
             \/ \E n \in 0..MaxRows :
                  /\ n <= LimitCap(st.sql)
                  /\ term' = [term EXCEPT !.pc = "all.scan", !.n = n]
                  /\ tlog' = Append(tlog, Event("query", "", <<>>))
    /\ UNCHANGED <<heapVars, buildVars, txVars, auxVars>>

\* one turn of for rows.Next() { item, err := q.scan(rows) ... }
AllScan ==
    /\ term.pc = "all.scan"
    /\ IF Len(term.result) < term.n
       THEN \/ /\ term' = [term EXCEPT !.result =
                                          Append(@, Len(term.result) + 1)]
               /\ tlog' = Append(tlog, Event("scan", "", <<>>))
            \/ /\ term' = AllReturn(term, <<>>, ScanErr)
               /\ UNCHANGED tlog
            \/ /\ term' = [term EXCEPT !.pc = "all.rowsErr",
                                       !.iterErr = RowsErr]
               /\ UNCHANGED tlog
       ELSE /\ \E e \in {NoErr, RowsErr} :
                 term' = [term EXCEPT !.pc = "all.rowsErr", !.iterErr = e]
            /\ UNCHANGED tlog
    /\ UNCHANGED <<heapVars, sent, buildVars, txVars, auxVars>>

\* if err := rows.Err(); err != nil { return nil, err }
AllRowsErr ==
    /\ term.pc = "all.rowsErr"
    /\ term' = IF term.iterErr # NoErr
               THEN AllReturn(term, <<>>, term.iterErr)
               ELSE [term EXCEPT !.pc = "all.preload", !.i = 1]
    /\ UNCHANGED <<heapVars, sent, tlog, buildVars, txVars, auxVars>>

\* the preload loop, were it to go on to the next name after a failure
AllPreloadGoesOn ==
    /\ term.pc = "all.preload"
    /\ LET v == View(mem, term.q2)
       IN IF term.i > Len(v.preloads)
          THEN /\ term' = AllReturn(term, term.result, NoErr)
               /\ UNCHANGED tlog
          ELSE LET name == preloadAt(v, term.i)
               IN IF ~hasPreloader(mem, term.q2, name)
                  THEN /\ term' = AllReturn(term, <<>>,
                                            ErrUnknownPreload(name))
                       /\ UNCHANGED tlog
                  ELSE \/ /\ tlog' = Append(tlog,
                                       Event("preload", name, term.result))
                          /\ term' = [term EXCEPT !.i = @ + 1]
                       \/ /\ tlog' = tlog \o
                                <<Event("preload", name, term.result),
                                  Event("preload failed", name, <<>>)>>
                          /\ term' = [term EXCEPT !.i = @ + 1]
    /\ UNCHANGED <<heapVars, sent, buildVars, txVars, auxVars>>

\* one turn of for _, name := range q.preloads { ... }, or return result, nil
AllPreload ==
    /\ term.pc = "all.preload"
    /\ LET v == View(mem, term.q2)
       IN IF term.i > Len(v.preloads)
          THEN /\ term' = AllReturn(term, term.result, NoErr)
               /\ UNCHANGED tlog
          ELSE LET name == preloadAt(v, term.i)
               IN IF ~hasPreloader(mem, term.q2, name)
                  THEN /\ term' = AllReturn(term, <<>>,
                                            ErrUnknownPreload(name))
                       /\ UNCHANGED tlog
                  ELSE \/ /\ tlog' = Append(tlog,
                                       Event("preload", name, term.result))
                          /\ term' = [term EXCEPT !.i = @ + 1]
                       \/ /\ tlog' = tlog \o
                                <<Event("preload", name, term.result),
                                  Event("preload failed", name, <<>>)>>
                          /\ term' = AllReturn(term, <<>>, PreloadErr)
    /\ UNCHANGED <<heapVars, sent, buildVars, txVars, auxVars>>

\* First after q2.All(ctx) returned
FirstReturn ==
    /\ term.pc = "first.ret"
    /\ term' = IF term.allErr # NoErr
               THEN [term EXCEPT !.pc = "done", !.err = term.allErr,
                                 !.val = <<>>]
               ELSE IF Len(term.items) = 0
               THEN [term EXCEPT !.pc = "done", !.err = ErrNotFound,
                                 !.val = <<>>]
               ELSE [term EXCEPT !.pc = "done", !.err = NoErr,
                                 !.val = <<term.items[1]>>]
    /\ UNCHANGED <<heapVars, sent, tlog, buildVars, txVars, auxVars>>

-----------------------------------------------------------------------------
(* Create, CreateAll, Upsert *)

ErrNoReturningResult == "orm: INSERT RETURNING returned no rows"
LastInsertIdErr == "LastInsertId failed"

\* the ids the database gives to the rows of one INSERT, and the id a
\* non-RETURNING result reports for the first of them
ReturnedId(i) == 10 * i
FirstId == 10

NewNames == {"ann", "bob"}

\* the values Create and CreateAll are called with: the key not yet set
NewUser(name) == [ID |-> 0, Name |-> name]

ItemLists ==
    UNION { [1..n -> {NewUser(nm) : nm \in NewNames}] : n \in 0..MaxItems }

setTestUserPK(u, id) == [u EXCEPT !.ID = id]

\* the answers to a RETURNING statement that inserts n rows
ReturningResponses(n) ==
    {Resp("queryErr", <<>>, 0, FALSE, FALSE)} \cup
    { Resp("rows", [i \in 1..k |-> ReturnedId(i)], j, e, FALSE) :
        k \in 0..n, j \in 0..n, e \in BOOLEAN }

\* only the answers that differ in what the method can see
ReturningAnswers(n) ==
    { r \in ReturningResponses(n) :
        r.kind = "rows" => (r.scanErrAt <= Len(r.ids)
                            /\ (r.scanErrAt > 0 => ~r.rowsErr)) }

ExecResponses ==
    { Resp("execErr", <<>>, 0, FALSE, FALSE),
      Resp("result", <<>>, 0, FALSE, FALSE),
      Resp("result", <<>>, 0, FALSE, TRUE) }

unbox(vals) == [i \in 1..Len(vals) |-> vals[i][1]]

placeholders(n) == stringsJoin([i \in 1..n |-> <<"?">>], <<", ">>)

buildInsert(d, columns) ==
    <<"INSERT INTO ">> \o qi(d, Table) \o <<" (">> \o quoteColumns(d, columns)
    \o <<") VALUES ">> \o <<"(">> \o placeholders(Len(columns)) \o <<")">>

buildBatchInsert(d, columns, rowCount) ==
    LET oneRow == <<"(">> \o placeholders(Len(columns)) \o <<")">>
    IN <<"INSERT INTO ">> \o qi(d, Table) \o <<" (">> \o
       quoteColumns(d, columns) \o <<") VALUES ">> \o
       stringsJoin([i \in 1..rowCount |-> oneRow], <<", ">>)

buildUpsert(d, columns) ==
    LET idx == SelectSeq([i \in 1..Len(columns) |-> i],
                         LAMBDA i : columns[i] # PK)
        updateCols == [k \in 1..Len(idx) |-> columns[idx[k]]]
        sets(fn) == stringsJoin(
                      [k \in 1..Len(updateCols) |->
                         qi(d, updateCols[k]) \o <<fn>> \o qi(d, updateCols[k])
                         \o (IF d = "mysql" THEN <<")">> ELSE <<>>)],
                      <<", ">>)
    IN <<"INSERT INTO ">> \o qi(d, Table) \o <<" (">> \o
       quoteColumns(d, columns) \o <<") VALUES ">> \o <<"(">> \o
       placeholders(Len(columns)) \o <<")">> \o
       (IF d = "mysql"
        THEN <<" ON DUPLICATE KEY UPDATE ">> \o sets(" = VALUES(")
        ELSE <<" ON CONFLICT (">> \o qi(d, PK) \o <<") DO UPDATE SET ">> \o
             sets(" = EXCLUDED."))

\* query += d.ReturningClause(q.pk), after the rewrite
withReturning(d, st) ==
    [sql |-> st.sql \o ReturningClause(d, PK), args |-> st.args]

\* what a method returns and what it left in the caller's items
Outcome(e, items) == [err |-> e, items |-> items]

\* a RETURNING branch that reads the row and never sets the key
createReturningKeepsKey(t, r) ==
    IF r.kind = "queryErr" THEN Outcome(QueryErr, <<t>>)
    ELSE IF Len(r.ids) = 0 THEN Outcome(ErrNoReturningResult, <<t>>)
    ELSE IF r.scanErrAt = 1 THEN Outcome(ScanErr, <<t>>)
    ELSE Outcome(IF r.rowsErr THEN RowsErr ELSE NoErr, <<t>>)

\* the RETURNING branch of Create
createReturning(t, r) ==
    IF r.kind = "queryErr" THEN Outcome(QueryErr, <<t>>)
    ELSE IF Len(r.ids) = 0 THEN Outcome(ErrNoReturningResult, <<t>>)
    ELSE IF r.scanErrAt = 1 THEN Outcome(ScanErr, <<t>>)
    ELSE Outcome(IF r.rowsErr THEN RowsErr ELSE NoErr,
                 <<setTestUserPK(t, r.ids[1])>>)

\* the RETURNING branch of CreateAll: for i := 0; rows.Next(); i++
createAllReturning(items, r) ==
    IF r.kind = "queryErr" THEN Outcome(QueryErr, items)
    ELSE LET done == IF r.scanErrAt > 0 THEN r.scanErrAt - 1 ELSE Len(r.ids)
             after == [i \in 1..Len(items) |->
                         IF i <= done THEN setTestUserPK(items[i], r.ids[i])
                         ELSE items[i]]
         IN Outcome(IF r.scanErrAt > 0 THEN ScanErr
                    ELSE IF r.rowsErr THEN RowsErr ELSE NoErr, after)

\* the RETURNING branch of Upsert: if rows.Next() { ... }
upsertReturning(t, r) ==
    IF r.kind = "queryErr" THEN Outcome(QueryErr, <<t>>)
    ELSE IF Len(r.ids) = 0
    THEN Outcome(IF r.rowsErr THEN RowsErr ELSE NoErr, <<t>>)
    ELSE IF r.scanErrAt = 1 THEN Outcome(ScanErr, <<t>>)
    ELSE Outcome(IF r.rowsErr THEN RowsErr ELSE NoErr,
                 <<setTestUserPK(t, r.ids[1])>>)

\* the ExecContext branch of Create and CreateAll
createAllExec(items, hasSetPK, r) ==
    IF r.kind = "execErr" THEN Outcome(ExecErr, items)
    ELSE IF ~hasSetPK THEN Outcome(NoErr, items)
    ELSE IF r.lastIDErr THEN Outcome(LastInsertIdErr, items)
    ELSE Outcome(NoErr, [i \in 1..Len(items) |->
                            setTestUserPK(items[i], FirstId + (i - 1))])

\* the values of the items, item after item
RECURSIVE allValues(_, _)
allValues(items, includesPK) ==
    IF Len(items) = 0 THEN <<>>
    ELSE unbox(testUserColValPairs(items[1], includesPK).vals) \o
         allValues(Tail(items), includesPK)

EndInsert(meth, arg, r, o) ==
    [term EXCEPT !.pc = "done", !.meth = meth, !.arg = arg, !.resp = r,
                 !.view0 = View(mem, term.q), !.err = o.err, !.val = o.items]

Create ==
    /\ term.pc = "idle"
    /\ \E nm \in NewNames :
        LET t == NewUser(nm)
            p == testUserColValPairs(t, ~term.setPK)
            st == rewrite(dialect, [sql |-> buildInsert(dialect, p.cols),
                                    args |-> unbox(p.vals)])
        IN IF UseReturning(dialect) /\ term.setPK
           THEN \E r \in ReturningAnswers(1) :
                  /\ sent' = Append(sent,
                                Stmt("query", withReturning(dialect, st)))
                  /\ term' = EndInsert("Create", <<t>>, r,
                                       createReturning(t, r))
           ELSE \E r \in ExecResponses :
                  /\ sent' = Append(sent, Stmt("exec", st))
                  /\ term' = EndInsert("Create", <<t>>, r,
                                       createAllExec(<<t>>, term.setPK, r))
    /\ UNCHANGED <<heapVars, tlog, buildVars, txVars, auxVars>>

CreateAll ==
    /\ term.pc = "idle"
    /\ \E items \in ItemLists :
        IF Len(items) = 0
        THEN /\ term' = EndInsert("CreateAll", items, NoResp,
                                  Outcome(NoErr, items))
             /\ UNCHANGED sent
        ELSE LET cols == testUserColValPairs(items[1], ~term.setPK).cols
                 st == rewrite(dialect,
                          [sql |-> buildBatchInsert(dialect, cols, Len(items)),
                           args |-> allValues(items, ~term.setPK)])
             IN IF UseReturning(dialect) /\ term.setPK
                THEN \E r \in ReturningAnswers(Len(items)) :
                       /\ sent' = Append(sent,
                                     Stmt("query", withReturning(dialect, st)))
                       /\ term' = EndInsert("CreateAll", items, r,
                                            createAllReturning(items, r))
                ELSE \E r \in ExecResponses :
                       /\ sent' = Append(sent, Stmt("exec", st))
                       /\ term' = EndInsert("CreateAll", items, r,
                                      createAllExec(items, term.setPK, r))
    /\ UNCHANGED <<heapVars, tlog, buildVars, txVars, auxVars>>

Upsert ==
    /\ term.pc = "idle"
    /\ \E t \in TestUsers :
        LET p == testUserColValPairs(t, TRUE)
            st == rewrite(dialect, [sql |-> buildUpsert(dialect, p.cols),
                                    args |-> unbox(p.vals)])
        IN IF UseReturning(dialect) /\ term.setPK
           THEN \E r \in ReturningAnswers(1) :
                  /\ sent' = Append(sent,
                                Stmt("query", withReturning(dialect, st)))
                  /\ term' = EndInsert("Upsert", <<t>>, r,
                                       upsertReturning(t, r))
           ELSE \E r \in {x \in ExecResponses : ~x.lastIDErr} :
                  /\ sent' = Append(sent, Stmt("exec", st))
                  /\ term' = EndInsert("Upsert", <<t>>, r,
                                Outcome(IF r.kind = "execErr" THEN ExecErr
                                        ELSE NoErr, <<t>>))
    /\ UNCHANGED <<heapVars, tlog, buildVars, txVars, auxVars>>

NextTerm ==
    \/ TermBuild
    \/ Delete
    \/ Updates
    \/ Update
    \/ First
    \/ All
    \/ AllQuery
    \/ AllScan
    \/ AllRowsErr
    \/ AllPreload
    \/ FirstReturn
    \/ Create
    \/ CreateAll
    \/ Upsert

SpecTerm == InitTerm /\ [][NextTerm]_vars

-----------------------------------------------------------------------------
(* The terminal methods: what is checked *)

Ended(meth) == term.pc = "done" /\ term.meth = meth

\* C4: Delete and bulk Updates on a query with no WHERE fragment return an
\* error and the connection receives no statement, whatever else the query
\* has accumulated.
C4_NoWhereFailsBeforeStorage ==
    ((Ended("Delete") \/ Ended("Updates")) /\ Len(term.view0.wheres) = 0)
        => (term.err # NoErr /\ Len(sent) = 0)

C4_Witness ==
    /\ Ended("Delete")
    /\ Len(term.view0.wheres) = 0
    /\ Len(term.view0.orderBys) > 0
    /\ term.view0.limit # NilPtr
    /\ term.err = ErrDeleteWithoutWhere
    /\ Len(sent) = 0

\* C5: Update with a value whose primary key is the zero value of its type
\* returns the missing-primary-key error and the connection receives no
\* statement.
C5_ZeroPrimaryKeyRejected ==
    (Ended("Update") /\ term.arg.ID = 0)
        => (term.err = ErrMissingPrimaryKey /\ Len(sent) = 0)

\* the one statement the connection received, and the LIMIT values in it
LimitsIn(sql) ==
    LET at == SelectSeq([i \in 1..Len(sql) |-> i],
                        LAMBDA i : i > 1 /\ sql[i - 1] = " LIMIT ")
    IN [k \in 1..Len(at) |-> sql[at[k]]]

FirstSendsLimitOne ==
    /\ Len(sent) = 1
    /\ sent[1].kind = "query"
    /\ LimitsIn(sent[1].sql) = <<"1">>
    /\ LET st == rewrite(dialect,
                     buildSelect(dialect,
                         [term.view0 EXCEPT !.limit = Ptr(1)]))
       IN sent[1].sql = st.sql /\ sent[1].args = st.args
    /\ View(mem, term.q) = term.view0

\* the statement ran, the rows decoded and the registered preload functions
\* returned without error
StorageSucceeded == term.allErr \notin {QueryErr, ScanErr, RowsErr, PreloadErr}

\* C9 (as written): First sends the query with LIMIT 1 in place of any
\* earlier limit and leaves the receiver as it was; when storage does not
\* fail it returns ErrNotFound for zero matching rows, otherwise the first
\* decoded row and no error.
C9_FirstNotFoundOrFirstRow ==
    Ended("First") =>
        /\ FirstSendsLimitOne
        /\ StorageSucceeded =>
              IF term.n = 0
              THEN term.err = ErrNotFound
              ELSE term.err = NoErr /\ term.val = <<1>>

\* C9 (amended): First sends the query with LIMIT 1 in place of any earlier
\* limit and leaves the receiver as it was; when All returns no error it
\* returns ErrNotFound for zero matching rows, otherwise the first decoded
\* row and no error; an error of All, an unregistered preload name among
\* them, is returned as it is.
C9_FirstNotFoundOrFirstRowUnlessAllFails ==
    Ended("First") =>
        /\ FirstSendsLimitOne
        /\ IF term.allErr # NoErr
           THEN term.err = term.allErr
           ELSE IF term.n = 0
           THEN term.err = ErrNotFound
           ELSE term.err = NoErr /\ term.val = <<1>>

C9_Witness ==
    /\ Ended("First")
    /\ term.view0.limit = Ptr(11)
    /\ term.n = 1
    /\ term.err = NoErr
    /\ term.val = <<1>>
    /\ View(mem, term.q).limit = Ptr(11)

PreloadEvents == SelectSeq(tlog, LAMBDA x : x.ev = "preload")

ScanEvents == SelectSeq(tlog, LAMBDA x : x.ev = "scan")

AllReturned == term.pc \in {"first.ret", "done"} /\ term.meth \in {"All", "First"}

\* C10: All calls a preload function only after the statement has run and
\* every row is decoded; the calls are made one after the other in the order
\* of the Preload calls, each with the whole result slice; a preload name
\* with no registered function makes All return an error.
C10_PreloadsAfterDecodeInOrder ==
    /\ \A k \in 1..Len(tlog) :
          tlog[k].ev = "preload" =>
            /\ tlog[1].ev = "query"
            /\ Len(ScanEvents) = term.n
            /\ \A j \in 1..Len(tlog) : tlog[j].ev = "scan" => j < k
            /\ tlog[k].rows = [r \in 1..term.n |-> r]
    /\ Len(PreloadEvents) > 0 =>
          LET names == View(mem, term.q2).preloads
          IN /\ Len(PreloadEvents) <= Len(names)
             /\ \A k \in 1..Len(PreloadEvents) :
                   PreloadEvents[k].name = names[k]
    /\ AllReturned =>
          ((\E k \in 1..Len(term.view0.preloads) :
               ~hasPreloader(mem, term.q, term.view0.preloads[k]))
             => term.allErr # NoErr)

C10_Witness ==
    /\ Ended("All")
    /\ term.err = NoErr
    /\ term.n = 2
    /\ Len(PreloadEvents) = 2
    /\ PreloadEvents[1].name = "Comments"
    /\ PreloadEvents[2].name = "Posts"
    /\ PreloadEvents[2].rows = <<1, 2>>

\* C11: when a preload function returns an error, All, and First through it,
\* return that error and no result, and no preload function further down the
\* preload list is called.
C11_PreloadErrorAborts ==
    \A k \in 1..Len(tlog) :
        tlog[k].ev = "preload failed" =>
          /\ k = Len(tlog)
          /\ AllReturned
          /\ term.allErr = PreloadErr
          /\ term.items = <<>>
          /\ term.pc = "done" => (term.err = PreloadErr /\ term.val = <<>>)

C11_Witness ==
    /\ Ended("First")
    /\ term.err = PreloadErr
    /\ term.n = 1
    /\ Len(View(mem, term.q2).preloads) = 2
    /\ Len(PreloadEvents) = 1
    /\ tlog[Len(tlog)].ev = "preload failed"

-----------------------------------------------------------------------------
(* Create, CreateAll, Upsert: what is checked *)

ReturningUsed == UseReturning(dialect) /\ term.setPK

\* C12: a Create, a CreateAll of one or more items or an Upsert that goes
\* through RETURNING and whose statement yields no row returns an error; it
\* never returns success with the key left unset.
C12_ReturningZeroRowsIsError ==
    ( /\ Ended("Create") \/ Ended("Upsert")
         \/ (Ended("CreateAll") /\ Len(term.arg) >= 1)
      /\ ReturningUsed
      /\ term.resp.kind = "rows"
      /\ Len(term.resp.ids) = 0 )
    => term.err # NoErr

\* the value groups of an INSERT statement
ValueGroups(sql) == Len(SelectSeq(sql, LAMBDA tok : tok = "("))

\* C13: CreateAll of N >= 1 items sends one INSERT with N value groups and
\* the values of the items in input order; on success, with RETURNING the
\* key of the i-th returned row is in the i-th item for all N items, without
\* RETURNING item i (from 0) holds the first id plus i; with N = 0 nothing
\* is sent and no error returned.
C13_CreateAllOneInsertPositionalKeys ==
    Ended("CreateAll") =>
        LET N == Len(term.arg)
        IN IF N = 0
           THEN Len(sent) = 0 /\ term.err = NoErr
           ELSE /\ Len(sent) = 1
                /\ ValueGroups(sent[1].sql) = N
                /\ sent[1].args = allValues(term.arg, ~term.setPK)
                /\ (term.err = NoErr /\ term.setPK) =>
                      \A i \in 1..N :
                          IF UseReturning(dialect)
                          THEN /\ i <= Len(term.resp.ids)
                               /\ term.val[i].ID = term.resp.ids[i]
                          ELSE term.val[i].ID = FirstId + (i - 1)

-----------------------------------------------------------------------------
(* scope.In and the placeholder rewrite, applied to inputs of every shape *)

\* repeatJoin("?", count): count copies of s joined with ", "
repeatJoin(s, count) ==
    IF count <= 0 THEN <<>>
    ELSE stringsJoin([i \in 1..count |-> <<s>>], <<", ">>)

\* scope.Where(clause, args...)
ScopeWhere(clause, args) == Scope("Where", clause, args, 0)

\* In without its test for an empty list
InNoEmptyCase(column, values) ==
    ScopeWhere(<<column \o " IN (">> \o repeatJoin("?", Len(values)) \o <<")">>,
               values)

In(column, values) ==
    IF Len(values) = 0 THEN ScopeWhere(<<"1 = 0">>, <<>>)
    ELSE ScopeWhere(<<column \o " IN (">> \o repeatJoin("?", Len(values))
                    \o <<")">>,
                    [i \in 1..Len(values) |-> values[i]])

InInputs ==
    { [column |-> c, values |-> v] :
        c \in {"id", "role"},
        v \in UNION { [1..n -> {1, 2}] : n \in 0..MaxIn } }

\* authored statements: placeholders between pieces of other text, and one
\* argument for each placeholder
SqlTokens == {"?", "a = ", " AND ", " LIMIT 1"}

RECURSIVE CountPlaceholders(_)
CountPlaceholders(sql) ==
    IF Len(sql) = 0 THEN 0
    ELSE (IF sql[1] = "?" THEN 1 ELSE 0) + CountPlaceholders(Tail(sql))

RewriteInputs ==
    { [d |-> d, sql |-> q, args |-> [i \in 1..CountPlaceholders(q) |-> 10 + i]] :
        d \in Dialects,
        q \in UNION { [1..n -> SqlTokens] : n \in 0..MaxTokens } }

InitPure ==
    /\ HeapIdle
    /\ BuildIdle
    /\ TxIdle
    /\ TermIdle
    /\ sl = NoSlices
    /\ \/ \E x \in InInputs : pure = [fn |-> "In", in |-> x, out |-> <<>>]
       \/ \E x \in RewriteInputs :
             pure = [fn |-> "rewrite", in |-> x, out |-> <<>>]

CallIn ==
    /\ pure.fn = "In"
    /\ pure.out = <<>>
    /\ pure' = [pure EXCEPT !.out = <<In(pure.in.column, pure.in.values)>>]
    /\ UNCHANGED <<heapVars, buildVars, txVars, termVars, sl>>

CallRewrite ==
    /\ pure.fn = "rewrite"
    /\ pure.out = <<>>
    /\ pure' = [pure EXCEPT !.out =
                  <<rewrite(pure.in.d,
                            [sql |-> pure.in.sql, args |-> pure.in.args])>>]
    /\ UNCHANGED <<heapVars, buildVars, txVars, termVars, sl>>

NextPure == CallIn \/ CallRewrite

SpecPure == InitPure /\ [][NextPure]_vars

\* C14: In(col, values) with an empty list is the fragment 1 = 0 without
\* arguments; with n >= 1 values it is col IN (?, ..., ?) with n placeholders
\* and the n values as arguments in input order.
C14_InExpandsPlaceholders ==
    (pure.fn = "In" /\ pure.out # <<>>) =>
        LET o == pure.out[1]
            n == Len(pure.in.values)
        IN /\ o.kind = "Where"
           /\ IF n = 0
              THEN o.clause = <<"1 = 0">> /\ o.args = <<>>
              ELSE /\ Len(o.clause) = 2 * n + 1
                   /\ o.clause[1] = pure.in.column \o " IN ("
                   /\ o.clause[2 * n + 1] = ")"
                   /\ \A k \in 1..n : o.clause[2 * k] = "?"
                   /\ \A k \in 1..(n - 1) : o.clause[2 * k + 1] = ", "
                   /\ o.args = pure.in.values

C14_Witness ==
    /\ pure.fn = "In"
    /\ pure.out # <<>>
    /\ pure.in.values = <<2, 1, 2>>
    /\ pure.out[1].clause = <<"role IN (", "?", ", ", "?", ", ", "?", ")">>
    /\ pure.out[1].args = <<2, 1, 2>>

\* C15: the rewrite gives back the statement as it is for MySQL; for
\* PostgreSQL the k-th ? from the left becomes $k and everything else is
\* kept; the arguments come back unchanged and in the same order.
C15_RewriteNumbersPlaceholders ==
    (pure.fn = "rewrite" /\ pure.out # <<>>) =>
        LET i == pure.in
            o == pure.out[1]
        IN /\ o.args = i.args
           /\ Len(o.sql) = Len(i.sql)
           /\ \A k \in 1..Len(i.sql) :
                 IF i.sql[k] = "?" /\ i.d = "postgres"
                 THEN o.sql[k] =
                        "$" \o ToString(CountPlaceholders(SubSeq(i.sql, 1, k)))
                 ELSE o.sql[k] = i.sql[k]

C15_Witness ==
    /\ pure.fn = "rewrite"
    /\ pure.out # <<>>
    /\ pure.in.d = "postgres"
    /\ pure.in.sql = <<"a = ", "?", " AND ", "?">>
    /\ pure.out[1].sql = <<"a = ", "$1", " AND ", "$2">>
    /\ pure.out[1].args = <<11, 12>>

-----------------------------------------------------------------------------
(* Scopes: Append, Merge, Combine, and what the caller does to the slices
   before and after *)

ZeroScope == Scope("Where", <<>>, <<>>, 0)

\* the scopes the caller starts from, and the one it writes afterwards
ScopeVals == {ScopeOf(WhereOp(1)), ScopeOf(LimitOp(1))}
WrittenScope == ScopeOf(OffsetOp(2))

\* make([]Scope, len, cap) filled with xs
makeSlice(A, xs, cap) ==
    IF cap = 0 THEN [a |-> A, s |-> NilSlice]
    ELSE [a |-> Append(A, [i \in 1..cap |->
                             IF i <= Len(xs) THEN xs[i] ELSE ZeroScope]),
          s |-> [arr |-> Len(A) + 1, len |-> Len(xs), cap |-> cap]]

\* append(s, xs...): in place when the capacity allows, else a new array
appendSlice(A, s, xs) ==
    IF Len(xs) = 0 THEN [a |-> A, s |-> s]
    ELSE IF s.len + Len(xs) <= s.cap
    THEN [a |-> [A EXCEPT ![s.arr] =
                    [i \in 1..s.cap |->
                        IF i > s.len /\ i <= s.len + Len(xs)
                        THEN xs[i - s.len] ELSE A[s.arr][i]]],
          s |-> [s EXCEPT !.len = s.len + Len(xs)]]
    ELSE LET need == s.len + Len(xs)
             c == IF 2 * s.cap > need THEN 2 * s.cap ELSE need
         IN [a |-> Append(A, [i \in 1..c |->
                                IF i <= s.len THEN A[s.arr][i]
                                ELSE IF i <= need THEN xs[i - s.len]
                                ELSE ZeroScope]),
             s |-> [arr |-> Len(A) + 1, len |-> need, cap |-> c]]

\* ss.Append(scopes...) and ss.Merge(other):
\* append(append(Scopes(nil), ss...), scopes...)
ScopesAppend(A, ss, scopes) ==
    LET first == appendSlice(A, NilSlice, Elems(A, ss))
    IN appendSlice(first.a, first.s, Elems(first.a, scopes))

ScopesMerge(A, ss, other) ==
    LET first == appendSlice(A, NilSlice, Elems(A, ss))
    IN appendSlice(first.a, first.s, Elems(first.a, other))

\* Combine(scopes...): Scopes(scopes), the slice of the variadic parameter
Combine(A, scopes) == [a |-> A, s |-> scopes]

InitScopes ==
    /\ dialect = "mysql"
    /\ queries = Factory.m.queries
    /\ maps = Factory.m.maps
    /\ BuildIdle
    /\ TxIdle
    /\ TermIdle
    /\ pure = NoPure
    /\ \E na, nb \in 0..MaxScopes :
        \E xa \in [1..na -> ScopeVals], xb \in [1..nb -> ScopeVals],
           spare \in 0..1 :
           LET ma == makeSlice(<<>>, xa, na + spare)
               mb == makeSlice(ma.a, xb, nb)
           IN /\ arrays = mb.a
              /\ sl = [NoSlices EXCEPT !.a = ma.s, !.b = mb.s,
                                       !.aexp = xa, !.bexp = xb]

Returned3(op, res) ==
    [sl EXCEPT !.op = op, !.r = res.s,
               !.a0 = Elems(arrays, sl.a), !.b0 = Elems(arrays, sl.b),
               !.r0 = Elems(res.a, res.s), !.rexp = Elems(res.a, res.s)]

\* r := a.Append(b...)
CallAppend ==
    /\ sl.op = "none"
    /\ LET res == ScopesAppend(arrays, sl.a, sl.b)
       IN arrays' = res.a /\ sl' = Returned3("Append", res)
    /\ UNCHANGED <<dialect, queries, maps, buildVars, txVars, termVars, pure>>

\* r := a.Merge(b)
CallMerge ==
    /\ sl.op = "none"
    /\ LET res == ScopesMerge(arrays, sl.a, sl.b)
       IN arrays' = res.a /\ sl' = Returned3("Merge", res)
    /\ UNCHANGED <<dialect, queries, maps, buildVars, txVars, termVars, pure>>

\* r := scope.Combine(a...): the caller passes a slice it holds
CallCombine ==
    /\ sl.op = "none"
    /\ LET res == Combine(arrays, sl.a)
       IN arrays' = res.a /\ sl' = Returned3("Combine", res)
    /\ UNCHANGED <<dialect, queries, maps, buildVars, txVars, termVars, pure>>

\* r := scope.Combine(x, y): the compiler builds the slice of the arguments
CallCombineOfValues ==
    /\ sl.op = "none"
    /\ LET tmp == makeSlice(arrays, Elems(arrays, sl.a), sl.a.len)
           res == Combine(tmp.a, tmp.s)
       IN arrays' = res.a /\ sl' = Returned3("CombineOfValues", res)
    /\ UNCHANGED <<dialect, queries, maps, buildVars, txVars, termVars, pure>>

\* after the call the caller changes an element of a slice it passed in
WriteInput ==
    /\ sl.op # "none"
    /\ sl.nw < MaxWrites
    /\ \/ \E i \in 1..sl.a.len :
            /\ arrays' = [arrays EXCEPT ![sl.a.arr][i] = WrittenScope]
            /\ sl' = [sl EXCEPT !.aexp[i] = WrittenScope, !.nw = @ + 1]
       \/ \E i \in 1..sl.b.len :
            /\ arrays' = [arrays EXCEPT ![sl.b.arr][i] = WrittenScope]
            /\ sl' = [sl EXCEPT !.bexp[i] = WrittenScope, !.nw = @ + 1]
    /\ UNCHANGED <<dialect, queries, maps, buildVars, txVars, termVars, pure>>

\* after the call the caller appends to the slice it passed in
AppendInput ==
    /\ sl.op # "none"
    /\ sl.nw < MaxWrites
    /\ LET res == appendSlice(arrays, sl.a, <<WrittenScope>>)
       IN /\ arrays' = res.a
          /\ sl' = [sl EXCEPT !.a = res.s, !.aexp = Append(@, WrittenScope),
                              !.nw = @ + 1]
    /\ UNCHANGED <<dialect, queries, maps, buildVars, txVars, termVars, pure>>

\* after the call the caller changes an element of the returned Scopes
WriteResult ==
    /\ sl.op # "none"
    /\ sl.nw < MaxWrites
    /\ \E i \in 1..sl.r.len :
        /\ arrays' = [arrays EXCEPT ![sl.r.arr][i] = WrittenScope]
        /\ sl' = [sl EXCEPT !.rexp[i] = WrittenScope, !.nw = @ + 1]
    /\ UNCHANGED <<dialect, queries, maps, buildVars, txVars, termVars, pure>>

\* after the call the caller appends to the returned Scopes
AppendResult ==
    /\ sl.op # "none"
    /\ sl.nw < MaxWrites
    /\ LET res == appendSlice(arrays, sl.r, <<WrittenScope>>)
       IN /\ arrays' = res.a
          /\ sl' = [sl EXCEPT !.r = res.s, !.rexp = Append(@, WrittenScope),
                              !.nw = @ + 1]
    /\ UNCHANGED <<dialect, queries, maps, buildVars, txVars, termVars, pure>>

NextScopes ==
    \/ CallAppend
    \/ CallMerge
    \/ CallCombine
    \/ CallCombineOfValues
    \/ WriteInput
    \/ AppendInput
    \/ WriteResult
    \/ AppendResult

SpecScopes == InitScopes /\ [][NextScopes]_vars

\* the call left its inputs as they were and returned their concatenation
ReturnedConcatenation ==
    /\ sl.r0 = (IF sl.op \in {"Append", "Merge"} THEN sl.a0 \o sl.b0 ELSE sl.a0)
    /\ sl.nw = 0 => (Elems(arrays, sl.a) = sl.a0 /\ Elems(arrays, sl.b) = sl.b0)

\* each slice holds what its own holder wrote to it, nothing else
SlicesIndependent ==
    /\ Elems(arrays, sl.a) = sl.aexp
    /\ Elems(arrays, sl.b) = sl.bexp
    /\ Elems(arrays, sl.r) = sl.rexp

\* C16: Combine, Append and Merge leave receiver and arguments as they were
\* and return a new sequence, the concatenation of the inputs in order: a
\* later change to a slice passed in never shows in the returned Scopes and
\* a change to the returned Scopes never shows in the inputs.
C16_ScopesFreshConcatenation ==
    sl.op # "none" => (ReturnedConcatenation /\ SlicesIndependent)

-----------------------------------------------------------------------------
(* The timestamp extension: a type with created_at and updated_at columns,
   the columns registered or not, a Clock in the context *)

\* the times a record already holds, and the times the injected Clock shows
ExistingTime == 5
ClockTimes == {8, 9}

ArticleColumns == <<"id", "title", "created_at", "updated_at">>

Articles(id) ==
    { [ID |-> id, Title |-> "hello", CreatedAt |-> c, UpdatedAt |-> u] :
        c \in {ZeroTime, ExistingTime}, u \in {ZeroTime, ExistingTime} }

testArticleColValPairs(a, includesPK) ==
    IF includesPK
    THEN [cols |-> ArticleColumns,
          vals |-> <<Box(a.ID), Box(a.Title), Box(a.CreatedAt),
                     Box(a.UpdatedAt)>>]
    ELSE [cols |-> Tail(ArticleColumns),
          vals |-> <<Box(a.Title), Box(a.CreatedAt), Box(a.UpdatedAt)>>]

\* a setter that overwrites the field whatever it holds
setTestArticleCreatedAtAlways(a, t) == [a EXCEPT !.CreatedAt = t]

setTestArticleCreatedAt(a, t) ==
    IF a.CreatedAt = ZeroTime THEN [a EXCEPT !.CreatedAt = t] ELSE a

setTestArticleUpdatedAt(a, t) == [a EXCEPT !.UpdatedAt = t]

\* now(ctx) with a Clock in the context
now(clock) == clock

\* the registrations RegisterTimestamps is called with
StampChoices ==
    { Stamps(c, u) : c \in {<<>>, <<"created_at">>},
                     u \in {<<>>, <<"updated_at">>} }

InSeq(x, seq) == \E i \in 1..Len(seq) : seq[i] = x

\* the timestamps Create sets before it reads the values
stampForCreate(a, st, t) ==
    LET a1 == IF Len(st.createdAt) > 0 THEN setTestArticleCreatedAt(a, t) ELSE a
    IN IF Len(st.updatedAt) > 0 THEN setTestArticleUpdatedAt(a1, t) ELSE a1

\* the timestamp Update and Upsert set before they read the values
stampForUpdate(a, st, t) ==
    IF Len(st.updatedAt) > 0 THEN setTestArticleUpdatedAt(a, t) ELSE a

\* an upsert statement that updates every column but the key on conflict
buildUpsertKeepsCreatedAt(d, columns, createdAt) == buildUpsert(d, columns)

\* the upsert statement: on conflict every column is updated but the key
\* and the registered created-at columns
buildUpsertStamped(d, columns, createdAt) ==
    LET idx == SelectSeq([i \in 1..Len(columns) |-> i],
                         LAMBDA i : columns[i] # PK
                                    /\ ~InSeq(columns[i], createdAt))
        updateCols == [k \in 1..Len(idx) |-> columns[idx[k]]]
        sets(fn) == stringsJoin(
                      [k \in 1..Len(updateCols) |->
                         qi(d, updateCols[k]) \o <<fn>> \o qi(d, updateCols[k])
                         \o (IF d = "mysql" THEN <<")">> ELSE <<>>)],
                      <<", ">>)
    IN <<"INSERT INTO ">> \o qi(d, Table) \o <<" (">> \o
       quoteColumns(d, columns) \o <<") VALUES ">> \o <<"(">> \o
       placeholders(Len(columns)) \o <<")">> \o
       (IF d = "mysql"
        THEN <<" ON DUPLICATE KEY UPDATE ">> \o sets(" = VALUES(")
        ELSE <<" ON CONFLICT (">> \o qi(d, PK) \o <<") DO UPDATE SET ">> \o
             sets(" = EXCLUDED."))

InitStamps ==
    /\ dialect \in Dialects
    /\ queries = Factory.m.queries
    /\ arrays = Factory.m.arrays
    /\ maps = Factory.m.maps
    /\ BuildIdle
    /\ TxIdle
    /\ AuxIdle
    /\ sent = <<>>
    /\ tlog = <<>>
    /\ \E sp \in BOOLEAN, c \in ClockTimes, st \in StampChoices :
          term = [NewTerm EXCEPT !.q = Factory.id, !.setPK = sp,
                                 !.clock = c, !.stamps = st]

\* Create on a type with timestamps
StampedCreate ==
    /\ term.pc = "idle"
    /\ \E a \in Articles(0) :
        LET t == stampForCreate(a, term.stamps, now(term.clock))
            p == testArticleColValPairs(t, ~term.setPK)
            st == rewrite(dialect, [sql |-> buildInsert(dialect, p.cols),
                                    args |-> unbox(p.vals)])
        IN IF UseReturning(dialect) /\ term.setPK
           THEN \E r \in ReturningAnswers(1) :
                  /\ sent' = Append(sent,
                                Stmt("query", withReturning(dialect, st)))
                  /\ term' = EndInsert("Create", <<a>>, r,
                                       createReturning(t, r))
           ELSE \E r \in ExecResponses :
                  /\ sent' = Append(sent, Stmt("exec", st))
                  /\ term' = EndInsert("Create", <<a>>, r,
                                       createAllExec(<<t>>, term.setPK, r))
    /\ UNCHANGED <<heapVars, tlog, buildVars, txVars, auxVars>>

\* Update on a type with timestamps
StampedUpdate ==
    /\ term.pc = "idle"
    /\ \E a \in Articles(1), e \in {NoErr, ExecErr} :
        LET t == stampForUpdate(a, term.stamps, now(term.clock))
            p == testArticleColValPairs(t, TRUE)
            st == rewrite(dialect,
                     [sql |-> buildUpdate(dialect, Tail(p.cols)),
                      args |-> Append(unbox(Tail(p.vals)), p.vals[1][1])])
        IN /\ sent' = Append(sent, Stmt("exec", st))
           /\ term' = EndInsert("Update", <<a>>, NoResp, Outcome(e, <<t>>))
    /\ UNCHANGED <<heapVars, tlog, buildVars, txVars, auxVars>>

\* Upsert on a type with timestamps
StampedUpsert ==
    /\ term.pc = "idle"
    /\ \E a \in Articles(1) :
        LET t == stampForUpdate(a, term.stamps, now(term.clock))
            p == testArticleColValPairs(t, TRUE)
            st == rewrite(dialect,
                     [sql |-> buildUpsertStamped(dialect, p.cols,
                                                 term.stamps.createdAt),
                      args |-> unbox(p.vals)])
        IN IF UseReturning(dialect) /\ term.setPK
           THEN \E r \in ReturningAnswers(1) :
                  /\ sent' = Append(sent,
                                Stmt("query", withReturning(dialect, st)))
                  /\ term' = EndInsert("Upsert", <<a>>, r,
                                       upsertReturning(t, r))
           ELSE \E e \in {NoErr, ExecErr} :
                  /\ sent' = Append(sent, Stmt("exec", st))
                  /\ term' = EndInsert("Upsert", <<a>>, NoResp,
                                       Outcome(e, <<t>>))
    /\ UNCHANGED <<heapVars, tlog, buildVars, txVars, auxVars>>

NextStamps == StampedCreate \/ StampedUpdate \/ StampedUpsert

SpecStamps == InitStamps /\ [][NextStamps]_vars

\* the part of an upsert statement that lists the columns updated on conflict
ConflictUpdateList(sql) ==
    LET at == CHOOSE i \in 1..Len(sql) :
                 sql[i] \in {" ON DUPLICATE KEY UPDATE ", ") DO UPDATE SET "}
    IN SubSeq(sql, at + 1, Len(sql))

-----------------------------------------------------------------------------
(* A chain of builder calls, then All or Count: the statement sent, against
   the calls made *)

MaxChain == 3

ErrCountNoRows == "orm: COUNT returned no rows"

\* the builder calls of the chain: their fragments differ, so that the
\* order of two of a kind shows in the statement
ChainCalls ==
    { WhereOp(1), WhereOp(2), OrderByOp(1), OrderByOp(2), LimitOp(1),
      OffsetOp(1), JoinOp("Posts") }

\* the calls of a chain of joins: the relation registered or not
JoinCalls ==
    { JoinOp("Posts"), LeftJoinOp("Posts"), JoinOp("Nope"),
      LeftJoinOp("Nope"), WhereOp(1) }

InitSelect ==
    /\ dialect \in Dialects
    /\ queries = Factory.m.queries
    /\ arrays = Factory.m.arrays
    /\ maps = Factory.m.maps
    /\ BuildIdle
    /\ TxIdle
    /\ AuxIdle
    /\ term = [NewTerm EXCEPT !.q = Factory.id]
    /\ sent = <<>>
    /\ tlog = <<>>

\* one builder call of the chain; the caller goes on with what it returns
ChainBuild ==
    /\ term.pc = "idle"
    /\ Len(term.calls) < MaxChain
    /\ \E op \in ChainCalls :
        LET b == Build(mem, dialect, term.q, op)
        IN /\ SetMem(b.m)
           /\ term' = [term EXCEPT !.q = b.id, !.calls = Append(@, op)]
    /\ UNCHANGED <<dialect, sent, tlog, buildVars, txVars, auxVars>>

\* one Join or LeftJoin call of a chain of joins
JoinChainBuild ==
    /\ term.pc = "idle"
    /\ Len(term.calls) < MaxChain
    /\ \E op \in JoinCalls :
        LET b == Build(mem, dialect, term.q, op)
        IN /\ SetMem(b.m)
           /\ term' = [term EXCEPT !.q = b.id, !.calls = Append(@, op)]
    /\ UNCHANGED <<dialect, sent, tlog, buildVars, txVars, auxVars>>

\* Count: buildCount, rewrite, QueryContext, one row scanned
Count ==
    /\ term.pc = "idle"
    /\ LET v == View(mem, term.q)
           st == rewrite(dialect, buildCount(dialect, v))
           end(e, val) == [term EXCEPT !.pc = "done", !.meth = "Count",
                                       !.view0 = v, !.err = e, !.val = val]
       IN /\ sent' = Append(sent, Stmt("query", st))
          /\ \/ term' = end(QueryErr, <<0>>)
             \/ term' = end(ErrCountNoRows, <<0>>)
             \/ term' = end(ScanErr, <<0>>)
             \/ \E c \in 0..MaxRows, e \in {NoErr, RowsErr} :
                    term' = end(e, <<c>>)
    /\ UNCHANGED <<heapVars, tlog, buildVars, txVars, auxVars>>

\* the rows a COUNT statement returns when n rows match: the one row of
\* the aggregate, unless LIMIT 0 or an OFFSET of one or more cuts it off
CountRows(sql, n) ==
    IF \E i \in 1..(Len(sql) - 1) :
          \/ sql[i] = " OFFSET " /\ sql[i + 1] # "0"
          \/ sql[i] = " LIMIT " /\ sql[i + 1] = "0"
    THEN <<>>
    ELSE <<n>>

\* Exists: q.Limit(1).Count(ctx), then count > 0
Exists ==
    /\ term.pc = "idle"
    /\ LET b == Limit(mem, term.q, 1)
           st == rewrite(dialect, buildCount(dialect, View(b.m, b.id)))
           end(n, e, val) ==
               [term EXCEPT !.pc = "done", !.meth = "Exists",
                            !.view0 = View(mem, term.q), !.q2 = b.id,
                            !.n = n, !.err = e, !.val = val]
       IN /\ SetMem(b.m)
          /\ sent' = Append(sent, Stmt("query", st))
          /\ \E n \in 0..MaxRows :
                LET rows == CountRows(st.sql, n)
                IN \/ term' = end(n, QueryErr, <<FALSE>>)
                   \/ /\ rows = <<>>
                      /\ term' = end(n, ErrCountNoRows, <<FALSE>>)
                   \/ /\ rows # <<>>
                      /\ \/ term' = end(n, ScanErr, <<FALSE>>)
                         \/ term' = end(n, RowsErr, <<FALSE>>)
                         \/ term' = end(n, NoErr, <<rows[1] > 0>>)
    /\ UNCHANGED <<dialect, tlog, buildVars, txVars, auxVars>>

NextSelect ==
    \/ ChainBuild
    \/ All
    \/ AllQuery
    \/ AllScan
    \/ AllRowsErr
    \/ AllPreload
    \/ Exists

SpecSelect == InitSelect /\ [][NextSelect]_vars

NextJoins ==
    \/ JoinChainBuild
    \/ All
    \/ AllQuery
    \/ AllScan
    \/ AllRowsErr
    \/ AllPreload
    \/ Count

SpecJoins == InitSelect /\ [][NextJoins]_vars

\* the calls of one kind among the calls made, in the order made
CallsNamed(calls, names) == SelectSeq(calls, LAMBDA op : op.name \in names)

\* the number the last Limit (Offset) call of the chain gave
LastN(calls, name) ==
    LET l == CallsNamed(calls, {name}) IN l[Len(l)].n

\* the SELECT the calls made ask for: the clauses in their fixed order, the
\* fragments of a clause in the order of the calls
SelectAskedFor(d, calls) ==
    LET w == CallsNamed(calls, {"Where"})
        o == CallsNamed(calls, {"OrderBy"})
        j == SelectSeq(calls, LAMBDA op : op.name \in {"Join", "LeftJoin"}
                                          /\ op.rel = "Posts")
        jt(op) == IF op.name = "Join" THEN "INNER JOIN" ELSE "LEFT JOIN"
    IN [sql |->
          <<"SELECT ">> \o quoteColumns(d, Columns) \o
          <<" FROM ", QuoteIdent(d, Table)>> \o
          Flatten([i \in 1..Len(j) |->
             <<" ", jt(j[i]), " ", QuoteIdent(d, "posts"), " ON ",
               QuoteIdent(d, "posts"), ".", QuoteIdent(d, "user_id"), " = ",
               QuoteIdent(d, "users"), ".", QuoteIdent(d, "id")>>]) \o
          (IF Len(w) = 0 THEN <<>>
           ELSE <<" WHERE ">> \o
                stringsJoin([i \in 1..Len(w) |-> w[i].clause], <<" AND ">>)) \o
          (IF Len(o) = 0 THEN <<>>
           ELSE <<" ORDER BY ">> \o
                stringsJoin([i \in 1..Len(o) |-> o[i].clause], <<", ">>)) \o
          (IF Len(CallsNamed(calls, {"Limit"})) = 0 THEN <<>>
           ELSE <<" LIMIT ", ToString(LastN(calls, "Limit"))>>) \o
          (IF Len(CallsNamed(calls, {"Offset"})) = 0 THEN <<>>
           ELSE <<" OFFSET ", ToString(LastN(calls, "Offset"))>>),
        args |-> Flatten([i \in 1..Len(w) |-> w[i].args])]

\* C19: the statement All sends has its clauses in the order SELECT, FROM,
\* joins, WHERE, ORDER BY, LIMIT, OFFSET whatever the order of the builder
\* calls; the WHERE fragments are joined by AND and the ORDER BY fragments
\* by commas in the order they were added, and the arguments are those of
\* the WHERE fragments in that order.
C19_AllClauseOrder ==
    (term.meth = "All" /\ Len(sent) > 0) =>
        LET want == rewrite(dialect, SelectAskedFor(dialect, term.calls))
        IN /\ Len(sent) = 1
           /\ sent[1].sql = want.sql
           /\ sent[1].args = want.args

C19_Witness ==
    /\ term.meth = "All"
    /\ Len(sent) = 1
    /\ term.calls = <<OrderByOp(2), WhereOp(2), WhereOp(1)>>
    /\ sent[1].args = <<2, 1>>

\* the tokens of a SELECT or COUNT statement between the table and the
\* first of WHERE, ORDER BY, LIMIT, OFFSET
JoinPart(sql) ==
    LET from == CHOOSE i \in 1..Len(sql) :
                   sql[i] \in {" FROM ", "SELECT COUNT(*) FROM "}
        ends == { i \in 1..Len(sql) :
                    sql[i] \in {" WHERE ", " ORDER BY ", " LIMIT ",
                                " OFFSET "} }
        to == IF ends = {} THEN Len(sql)
              ELSE (CHOOSE i \in ends : \A k \in ends : i <= k) - 1
    IN SubSeq(sql, from + 2, to)

StorageErrors == {QueryErr, ScanErr, RowsErr, ErrCountNoRows}

\* C20: each Join / LeftJoin call with a registered name adds one clause
\* "<INNER|LEFT> JOIN <target table> ON <target table>.<target column> =
\* <source table>.<source column>", names quoted, to the SELECT and the COUNT
\* statement, the clauses in call order; a call with an unregistered name
\* adds nothing, and neither the builder nor the terminal method fails for
\* it: the statement is sent and only the connection's errors come back.
C20_JoinClauses ==
    (term.pc = "done" /\ term.meth \in {"All", "Count"}) =>
        LET j == CallsNamed(term.calls, {"Join", "LeftJoin"})
            clause(op) ==
                IF op.rel # "Posts" THEN <<>>
                ELSE <<" ", IF op.name = "Join" THEN "INNER JOIN"
                            ELSE "LEFT JOIN", " ",
                       QuoteIdent(dialect, "posts"), " ON ",
                       QuoteIdent(dialect, "posts"), ".",
                       QuoteIdent(dialect, "user_id"), " = ",
                       QuoteIdent(dialect, "users"), ".",
                       QuoteIdent(dialect, "id")>>
        IN /\ Len(sent) = 1
           /\ JoinPart(sent[1].sql) = Flatten([i \in 1..Len(j) |-> clause(j[i])])
           /\ term.err \in StorageErrors \cup {NoErr}

C20_Witness ==
    /\ Ended("Count")
    /\ term.calls = <<LeftJoinOp("Posts"), JoinOp("Nope"), JoinOp("Posts")>>
    /\ term.err = NoErr
    /\ Len(JoinPart(sent[1].sql)) = 24

\* the tokens of a SELECT statement between SELECT and FROM
SelectList(sql) ==
    LET from == CHOOSE i \in 1..Len(sql) : sql[i] = " FROM "
    IN SubSeq(sql, 2, from - 1)

\* C21: when the query holds a join and no Select override, the SELECT list
\* of All names every base column qualified by the quoted base table; a join
\* whose JoinConfig lists no SelectColumns adds no column to the list.
C21_JoinQualifiesColumns ==
    (term.meth = "All" /\ Len(sent) = 1 /\ Len(term.view0.joins) > 0
       /\ term.view0.selects = NilPtr) =>
        SelectList(sent[1].sql) =
            stringsJoin([i \in 1..Len(Columns) |->
                           <<QuoteIdent(dialect, Table), ".",
                             QuoteIdent(dialect, Columns[i])>>],
                        <<", ">>)

-----------------------------------------------------------------------------
(* The join-table helpers and the generated preloaders, against tables *)

MaxPairs == 3
MaxKeys == 2

\* the keys of the parent rows and of the target rows
SourceKeys == {1, 2}
TargetKeys == {10, 20}

JoinPair(s, t) == [Source |-> s, Target |-> t]

JoinPairs == { JoinPair(s, t) : s \in SourceKeys, t \in TargetKeys }

\* the rows an association table may hold, in the order it returns them
PairLists == UNION { [1..n -> JoinPairs] : n \in 0..MaxPairs }

KeyLists == UNION { [1..n -> SourceKeys] : n \in 0..MaxKeys }

\* how the connection answers one SELECT: all rows, a failed query, a row
\* that fails to scan, an iteration that ends with an error
Answers == {"rows", "query error", "scan error", "rows error"}

\* m[k] on a Go map: the zero value, a nil slice, for a missing key
MapGet(m, k) == IF k \in DOMAIN m THEN m[k] ELSE <<>>

\* UniqueTargets, were it to keep every target it meets
UniqueTargetsKeepsAll(pairs) == [i \in 1..Len(pairs) |-> pairs[i].Target]

RECURSIVE UniqueTargets(_)
UniqueTargets(pairs) ==
    IF Len(pairs) = 0 THEN <<>>
    ELSE LET n == Len(pairs)
             result == UniqueTargets(SubSeq(pairs, 1, n - 1))
         IN IF \E i \in 1..Len(result) : result[i] = pairs[n].Target
            THEN result
            ELSE Append(result, pairs[n].Target)

\* GroupBySource, were it to put a new target ahead of the group
RECURSIVE GroupBySourcePrepends(_)
GroupBySourcePrepends(pairs) ==
    IF Len(pairs) = 0 THEN <<>>
    ELSE LET n == Len(pairs)
             m == GroupBySourcePrepends(SubSeq(pairs, 1, n - 1))
             s == pairs[n].Source
         IN [k \in (DOMAIN m) \cup {s} |->
               IF k = s THEN <<pairs[n].Target>> \o MapGet(m, s) ELSE m[k]]

RECURSIVE GroupBySource(_)
GroupBySource(pairs) ==
    IF Len(pairs) = 0 THEN <<>>
    ELSE LET n == Len(pairs)
             m == GroupBySource(SubSeq(pairs, 1, n - 1))
             s == pairs[n].Source
         IN [k \in (DOMAIN m) \cup {s} |->
               IF k = s THEN Append(MapGet(m, s), pairs[n].Target) ELSE m[k]]

rewritePlaceholders(d, query) ==
    IF d = "mysql" THEN query ELSE rewriteFrom(d, query, 1)

\* the rows of the association table a statement selects: those whose
\* source is among the arguments, in table order
AssocRows(assoc, args) ==
    SelectSeq(assoc, LAMBDA p : \E i \in 1..Len(args) : args[i] = p.Source)

\* what a call returns and what it sent
Called(stmts, val, e) == [sent |-> stmts, val |-> val, err |-> e]

\* QueryJoinTable with an IN list one placeholder short
QueryJoinTableShortList(d, table, sourceCol, targetCol, sourceIDs, assoc, ans) ==
    IF Len(sourceIDs) = 0 THEN Called(<<>>, <<>>, NoErr)
    ELSE LET query == <<"SELECT ">> \o qi(d, sourceCol) \o <<", ">> \o
                      qi(d, targetCol) \o <<" FROM ">> \o qi(d, table) \o
                      <<" WHERE ">> \o qi(d, sourceCol) \o <<" IN (">> \o
                      repeatJoin("?", Len(sourceIDs) - 1) \o <<")">>
             st == [sql |-> rewritePlaceholders(d, query), args |-> sourceIDs]
             rows == AssocRows(assoc, st.args)
         IN Called(<<Stmt("query", st)>>, rows, NoErr)

QueryJoinTable(d, table, sourceCol, targetCol, sourceIDs, assoc, ans) ==
    IF Len(sourceIDs) = 0 THEN Called(<<>>, <<>>, NoErr)
    ELSE LET query == <<"SELECT ">> \o qi(d, sourceCol) \o <<", ">> \o
                      qi(d, targetCol) \o <<" FROM ">> \o qi(d, table) \o
                      <<" WHERE ">> \o qi(d, sourceCol) \o <<" IN (">> \o
                      repeatJoin("?", Len(sourceIDs)) \o <<")">>
             st == [sql |-> rewritePlaceholders(d, query),
                    args |-> [i \in 1..Len(sourceIDs) |-> sourceIDs[i]]]
             rows == AssocRows(assoc, st.args)
         IN CASE ans = "query error" ->
                    Called(<<Stmt("query", st)>>, <<>>, QueryErr)
              [] ans = "scan error" /\ Len(rows) > 0 ->
                    Called(<<Stmt("query", st)>>, <<>>, ScanErr)
              [] ans = "rows error" ->
                    Called(<<Stmt("query", st)>>, rows, RowsErr)
              [] OTHER -> Called(<<Stmt("query", st)>>, rows, NoErr)

\* buildSelect of the factory of another table, with the WHERE of one scope
buildSelectOf(d, table, columns, s) ==
    [sql |-> <<"SELECT ">> \o quoteColumns(d, columns) \o <<" FROM ">> \o
             qi(d, table) \o <<" WHERE ">> \o s.clause,
     args |-> s.args]

\* the target table: its rows in the order it returns them
TargetRow(id) == [ID |-> id]

TargetRows(targets, args) ==
    SelectSeq(targets, LAMBDA r : \E i \in 1..Len(args) : args[i] = r.ID)

\* TargetFactory(db).Scopes(scope.In(column, ids)).All(ctx)
AllTargetsIn(d, table, column, ids, targets, ans) ==
    LET st == rewrite(d, buildSelectOf(d, table, <<"id">>, In(column, ids)))
    IN IF ans = "rows"
       THEN Called(<<Stmt("query", st)>>, TargetRows(targets, st.args), NoErr)
       ELSE Called(<<Stmt("query", st)>>, <<>>, QueryErr)

\* byPK[r.ID] = r for each related row
ByPK(related) ==
    [id \in { related[i].ID : i \in 1..Len(related) } |->
        (CHOOSE i \in 1..Len(related) :
            related[i].ID = id
            /\ \A j \in (i + 1)..Len(related) : related[j].ID # id)]

\* the generated many-to-many preloader
preloadManyToMany(d, results, db, ans1, ans2) ==
    IF Len(results) = 0 THEN Called(<<>>, results, NoErr)
    ELSE
    LET ids == [i \in 1..Len(results) |-> results[i].ID]
        jt == QueryJoinTable(d, "user_tags", "user_id", "tag_id", ids,
                             db.assoc, ans1)
    IN IF jt.err # NoErr THEN Called(jt.sent, results, jt.err)
       ELSE
       LET pairs == jt.val
           targetIDs == UniqueTargets(pairs)
           rel == AllTargetsIn(d, "tags", "id", targetIDs, db.targets, ans2)
       IN IF rel.err # NoErr THEN Called(jt.sent \o rel.sent, results, rel.err)
          ELSE
          LET related == rel.val
              byPK == ByPK(related)
              grouped == GroupBySource(pairs)
              items(tIDs) ==
                  LET found == SelectSeq(tIDs, LAMBDA t : t \in DOMAIN byPK)
                  IN [k \in 1..Len(found) |-> related[byPK[found[k]]]]
          IN Called(jt.sent \o rel.sent,
                    [i \in 1..Len(results) |->
                       [results[i] EXCEPT
                          !.Tags = items(MapGet(grouped, results[i].ID))]],
                    NoErr)

\* the generated belongs-to preloader; optional: the foreign key is a
\* pointer, nil for a parent with no target
preloadBelongsTo(d, results, optional, db, ans2) ==
    IF Len(results) = 0 THEN Called(<<>>, results, NoErr)
    ELSE
    LET has == SelectSeq(results, LAMBDA r : ~optional \/ r.AuthorID # NilPtr)
        ids == [i \in 1..Len(has) |-> Deref(has[i].AuthorID)]
        rel == AllTargetsIn(d, "authors", "id", ids, db.targets, ans2)
    IN IF rel.err # NoErr THEN Called(rel.sent, results, rel.err)
       ELSE
       LET related == rel.val
           byPK == ByPK(related)
           lookup(k) == IF k \in DOMAIN byPK THEN Box(related[byPK[k]])
                        ELSE NilAny
       IN Called(rel.sent,
                 [i \in 1..Len(results) |->
                    IF optional /\ results[i].AuthorID = NilPtr
                    THEN results[i]
                    ELSE [results[i] EXCEPT
                            !.Author = lookup(Deref(results[i].AuthorID))]],
                 NoErr)

\* the target tables: every key of TargetKeys has its row, or the row of
\* 20 is gone
TargetTables == { <<TargetRow(10), TargetRow(20)>>, <<TargetRow(10)>> }

\* the association tables the preloader and QueryJoinTable read: rows
\* among parent 1 with targets 10 and 20, parent 2 with target 20
AssocPairs == {JoinPair(1, 10), JoinPair(1, 20), JoinPair(2, 20)}

AssocTables == UNION { [1..n -> AssocPairs] : n \in 0..MaxPairs }

\* the parents All decoded, for the many-to-many preloader
TaggedParents ==
    { [i \in 1..Len(k) |-> [ID |-> k[i], Tags |-> <<>>]] : k \in KeyLists }

\* the foreign keys of the parents of a belongs-to relation: 30 has no row
ForeignKeys == {10, 20, 30}

OwnedParents(optional) ==
    UNION { [1..n -> { [AuthorID |-> f, Author |-> NilAny] :
                         f \in { Ptr(k) : k \in ForeignKeys } \cup
                               (IF optional THEN {NilPtr} ELSE {}) }] :
            n \in 0..MaxKeys }

JoinTableInputs ==
    { [fn |-> f, in |-> [pairs |-> p], out |-> <<>>] :
        f \in {"UniqueTargets", "GroupBySource"}, p \in PairLists }
    \cup
    { [fn |-> "QueryJoinTable",
       in |-> [ids |-> k, assoc |-> p, ans |-> a], out |-> <<>>] :
        k \in KeyLists, p \in AssocTables, a \in Answers }
    \cup
    { [fn |-> "preloadManyToMany",
       in |-> [results |-> r, db |-> [assoc |-> p, targets |-> t],
               ans1 |-> a1, ans2 |-> a2],
       out |-> <<>>] :
        r \in TaggedParents, p \in AssocTables, t \in TargetTables,
        a1 \in Answers, a2 \in {"rows", "query error"} }
    \cup
    UNION { { [fn |-> "preloadBelongsTo",
               in |-> [results |-> r, optional |-> o,
                       db |-> [targets |-> t], ans2 |-> a2],
               out |-> <<>>] :
                r \in OwnedParents(o), t \in TargetTables,
                a2 \in {"rows", "query error"} } : o \in BOOLEAN }

InitJoinTable ==
    /\ dialect \in Dialects
    /\ queries = Factory.m.queries
    /\ arrays = Factory.m.arrays
    /\ maps = Factory.m.maps
    /\ BuildIdle
    /\ TxIdle
    /\ TermIdle
    /\ sl = NoSlices
    /\ pure \in JoinTableInputs

CallUniqueTargets ==
    /\ pure.fn = "UniqueTargets"
    /\ pure.out = <<>>
    /\ pure' = [pure EXCEPT !.out = <<UniqueTargets(pure.in.pairs)>>]
    /\ UNCHANGED <<heapVars, buildVars, txVars, termVars, sl>>

CallGroupBySource ==
    /\ pure.fn = "GroupBySource"
    /\ pure.out = <<>>
    /\ pure' = [pure EXCEPT !.out = <<GroupBySource(pure.in.pairs)>>]
    /\ UNCHANGED <<heapVars, buildVars, txVars, termVars, sl>>

CallQueryJoinTable ==
    /\ pure.fn = "QueryJoinTable"
    /\ pure.out = <<>>
    /\ LET r == QueryJoinTable(dialect, "user_tags", "user_id", "tag_id",
                               pure.in.ids, pure.in.assoc, pure.in.ans)
       IN /\ pure' = [pure EXCEPT !.out = <<r>>]
          /\ sent' = sent \o r.sent
    /\ UNCHANGED <<heapVars, buildVars, txVars, term, tlog, sl>>

PreloadManyToMany ==
    /\ pure.fn = "preloadManyToMany"
    /\ pure.out = <<>>
    /\ LET r == preloadManyToMany(dialect, pure.in.results, pure.in.db,
                                  pure.in.ans1, pure.in.ans2)
       IN /\ pure' = [pure EXCEPT !.out = <<r>>]
          /\ sent' = sent \o r.sent
    /\ UNCHANGED <<heapVars, buildVars, txVars, term, tlog, sl>>

PreloadBelongsTo ==
    /\ pure.fn = "preloadBelongsTo"
    /\ pure.out = <<>>
    /\ LET r == preloadBelongsTo(dialect, pure.in.results, pure.in.optional,
                                 pure.in.db, pure.in.ans2)
       IN /\ pure' = [pure EXCEPT !.out = <<r>>]
          /\ sent' = sent \o r.sent
    /\ UNCHANGED <<heapVars, buildVars, txVars, term, tlog, sl>>

NextJoinTable ==
    \/ CallUniqueTargets
    \/ CallGroupBySource
    \/ CallQueryJoinTable
    \/ PreloadManyToMany
    \/ PreloadBelongsTo

SpecJoinTable == InitJoinTable /\ [][NextJoinTable]_vars

\* the tokens of a statement between "IN (" and ")"
InList(sql) ==
    LET open == CHOOSE i \in 1..Len(sql) : sql[i] = " IN ("
    IN SubSeq(sql, open + 1, Len(sql) - 1)

\* C27: QueryJoinTable with no source keys sends nothing and returns no
\* pairs and no error; with n >= 1 keys it sends one SELECT whose IN list
\* has n placeholders, with the keys as arguments in input order, and it
\* returns the rows scanned, in row order.
C27_QueryJoinTableOneSelect ==
    (pure.fn = "QueryJoinTable" /\ pure.out # <<>>) =>
        LET r == pure.out[1]
            n == Len(pure.in.ids)
        IN IF n = 0
           THEN sent = <<>> /\ r.val = <<>> /\ r.err = NoErr
           ELSE /\ Len(sent) = 1
                /\ sent[1].kind = "query"
                /\ sent[1].sql[1] = "SELECT "
                /\ InList(sent[1].sql) =
                      stringsJoin([i \in 1..n |-> <<Placeholder(dialect, i)>>],
                                  <<", ">>)
                /\ sent[1].args = pure.in.ids
                /\ r.err = NoErr =>
                      r.val = AssocRows(pure.in.assoc, pure.in.ids)

C27_Witness ==
    /\ pure.fn = "QueryJoinTable"
    /\ pure.out # <<>>
    /\ dialect = "postgres"
    /\ pure.in.ids = <<2, 1>>
    /\ pure.out[1].err = NoErr
    /\ pure.out[1].val = <<JoinPair(1, 20), JoinPair(2, 20), JoinPair(1, 10)>>

\* how many times x occurs in a sequence
Occurrences(seq, x) == Cardinality({ i \in 1..Len(seq) : seq[i] = x })

\* where x first occurs as a target
FirstSeen(pairs, x) ==
    CHOOSE i \in 1..Len(pairs) :
        pairs[i].Target = x /\ \A j \in 1..(i - 1) : pairs[j].Target # x

\* C28: UniqueTargets returns each distinct target once, in the order the
\* targets are first seen; GroupBySource maps each source to its targets in
\* pair order, and the groups hold exactly the pairs given, duplicates kept.
C28_UniqueAndGrouped ==
    /\ (pure.fn = "UniqueTargets" /\ pure.out # <<>>) =>
          LET p == pure.in.pairs
              u == pure.out[1]
          IN /\ { u[i] : i \in 1..Len(u) } = { p[i].Target : i \in 1..Len(p) }
             /\ \A i, j \in 1..Len(u) : i < j =>
                   /\ u[i] # u[j]
                   /\ FirstSeen(p, u[i]) < FirstSeen(p, u[j])
    /\ (pure.fn = "GroupBySource" /\ pure.out # <<>>) =>
          LET p == pure.in.pairs
              m == pure.out[1]
          IN /\ DOMAIN m = { p[i].Source : i \in 1..Len(p) }
             /\ \A s \in DOMAIN m :
                   LET mine == SelectSeq(p, LAMBDA x : x.Source = s)
                   IN m[s] = [k \in 1..Len(mine) |-> mine[k].Target]
             /\ \A x \in JoinPairs :
                   Occurrences(p, x) = Occurrences(MapGet(m, x.Source), x.Target)

C28_Witness ==
    /\ pure.fn = "GroupBySource"
    /\ pure.out # <<>>
    /\ pure.in.pairs = <<JoinPair(1, 20), JoinPair(2, 20), JoinPair(1, 20)>>
    /\ pure.out[1][1] = <<20, 20>>

\* the statements sent that read a table
QueriesOn(table) ==
    SelectSeq(sent, LAMBDA st :
        \E i \in 1..Len(st.sql) : st.sql[i] = QuoteIdent(dialect, table))

\* C22: the many-to-many preloader, run on at least one parent, gives each
\* parent the target rows paired with it in the association table, in pair
\* order, and sends one query to the association table and one to the
\* target table whatever the number of parents.
C22_ManyToManyPreload ==
    (pure.fn = "preloadManyToMany" /\ pure.out # <<>>
       /\ Len(pure.in.results) >= 1) =>
        LET r == pure.out[1]
            db == pure.in.db
            paired(id) ==
                SelectSeq(db.assoc, LAMBDA p :
                    /\ p.Source = id
                    /\ \E k \in 1..Len(db.targets) : db.targets[k].ID = p.Target)
        IN /\ Len(QueriesOn("user_tags")) = 1
           /\ Len(QueriesOn("tags")) <= 1
           /\ Len(sent) = Len(QueriesOn("user_tags")) + Len(QueriesOn("tags"))
           /\ r.err = NoErr =>
                /\ Len(QueriesOn("tags")) = 1
                /\ Len(r.val) = Len(pure.in.results)
                /\ \A i \in 1..Len(r.val) :
                      /\ r.val[i].ID = pure.in.results[i].ID
                      /\ r.val[i].Tags =
                            [k \in 1..Len(paired(r.val[i].ID)) |->
                                TargetRow(paired(r.val[i].ID)[k].Target)]

C22_Witness ==
    /\ pure.fn = "preloadManyToMany"
    /\ pure.out # <<>>
    /\ pure.in.db.assoc = <<JoinPair(1, 10), JoinPair(2, 20), JoinPair(1, 20)>>
    /\ Len(pure.out[1].val) = 2
    /\ pure.out[1].val[1] = [ID |-> 1, Tags |-> <<TargetRow(10), TargetRow(20)>>]
    /\ pure.out[1].val[2] = [ID |-> 2, Tags |-> <<TargetRow(20)>>]
    /\ Len(sent) = 2

\* C25: the belongs-to preloader asks the target table for the foreign keys
\* of the parents, each distinct key once in the IN list, nil keys left out
\* when the key is optional, and gives each parent the target row whose
\* primary key is its foreign key, nothing for a nil or unmatched key.
C25_BelongsToPreload ==
    (pure.fn = "preloadBelongsTo" /\ pure.out # <<>>
       /\ Len(pure.in.results) >= 1) =>
        LET r == pure.out[1]
            res == pure.in.results
            keys == { Deref(res[i].AuthorID) :
                        i \in { j \in 1..Len(res) : res[j].AuthorID # NilPtr } }
            t == pure.in.db.targets
        IN /\ Len(sent) = 1
           /\ { sent[1].args[i] : i \in 1..Len(sent[1].args) } = keys
           /\ \A k \in keys : Occurrences(sent[1].args, k) = 1
           /\ r.err = NoErr =>
                \A i \in 1..Len(res) :
                    r.val[i].Author =
                        (IF res[i].AuthorID # NilPtr
                            /\ \E k \in 1..Len(t) :
                                  t[k].ID = Deref(res[i].AuthorID)
                         THEN Box(TargetRow(Deref(res[i].AuthorID)))
                         ELSE NilAny)

\* C25 but for the count of each key in the IN list: the keys asked for
\* are those of the parents and each parent gets its row
BelongsToAssigns ==
    (pure.fn = "preloadBelongsTo" /\ pure.out # <<>>
       /\ Len(pure.in.results) >= 1) =>
        LET r == pure.out[1]
            res == pure.in.results
            keys == { Deref(res[i].AuthorID) :
                        i \in { j \in 1..Len(res) : res[j].AuthorID # NilPtr } }
            t == pure.in.db.targets
        IN /\ Len(sent) = 1
           /\ { sent[1].args[i] : i \in 1..Len(sent[1].args) } = keys
           /\ r.err = NoErr =>
                \A i \in 1..Len(res) :
                    r.val[i].Author =
                        (IF res[i].AuthorID # NilPtr
                            /\ \E k \in 1..Len(t) :
                                  t[k].ID = Deref(res[i].AuthorID)
                         THEN Box(TargetRow(Deref(res[i].AuthorID)))
                         ELSE NilAny)

\* Exists sent the COUNT of the query with LIMIT 1 in place of its limit,
\* and the query it was called on is as it was
ExistsIsCountLimitOne ==
    /\ Len(sent) = 1
    /\ LET st == rewrite(dialect,
                     buildCount(dialect, [term.view0 EXCEPT !.limit = Ptr(1)]))
       IN sent[1].sql = st.sql /\ sent[1].args = st.args
    /\ View(mem, term.q) = term.view0

\* C23: Exists is Count on the query with Limit(1) put in; it returns true
\* exactly when at least one row matches the WHERE fragments, false and no
\* error when none does, and it leaves the receiver as it was.
C23_ExistsIffRowMatches ==
    Ended("Exists") =>
        /\ ExistsIsCountLimitOne
        /\ term.err \notin {QueryErr, ScanErr, RowsErr} =>
              /\ term.err = NoErr
              /\ term.val = <<term.n > 0>>

\* C23 holds of a query that carries no offset
ExistsWithoutOffset ==
    (Ended("Exists") /\ term.view0.offset = NilPtr) =>
        /\ ExistsIsCountLimitOne
        /\ term.err \notin {QueryErr, ScanErr, RowsErr} =>
              /\ term.err = NoErr
              /\ term.val = <<term.n > 0>>

-----------------------------------------------------------------------------
(* Registration on a query and on a query derived from it *)

\* the names a caller may ask for, and those registered late
RelationNames == {"Posts", "Tags", "Nope"}
LateNames == {"Posts", "Tags"}

TagsJoin == [TargetTable |-> "tags", TargetColumn |-> "id",
             SourceTable |-> "users", SourceColumn |-> "tag_id"]

\* the names Join / LeftJoin resolve on q, and those the preload loop of
\* All resolves
Resolves(m, q) ==
    [joins |-> { n \in RelationNames : hasJoinDef(m, q, n) },
     preloaders |-> { n \in RelationNames : hasPreloader(m, q, n) }]

\* a query fresh from NewQuery, nothing registered
BareFactory == [m |-> Mem(<<NewQuery>>, <<>>, <<>>), id |-> 1]

InitRegister ==
    /\ dialect \in Dialects
    /\ \E f \in {Factory, BareFactory} :
          /\ queries = f.m.queries
          /\ arrays = f.m.arrays
          /\ maps = f.m.maps
          /\ term = [NewTerm EXCEPT !.q = f.id]
    /\ BuildIdle
    /\ TxIdle
    /\ AuxIdle
    /\ sent = <<>>
    /\ tlog = <<>>

\* q2 := q.<builder call>
Derive ==
    /\ term.pc = "idle"
    /\ \E op \in ChainCalls \cup JoinCalls \cup {PreloadOp("Posts"), SelectOp(1)} :
        LET b == Build(mem, dialect, term.q, op)
        IN /\ SetMem(b.m)
           /\ term' = [term EXCEPT
                 !.pc = "derived", !.q2 = b.id, !.calls = <<op>>,
                 !.view0 = [parent |-> Resolves(b.m, term.q),
                            derived |-> Resolves(b.m, b.id)]]
    /\ UNCHANGED <<dialect, sent, tlog, buildVars, txVars, auxVars>>

\* RegisterJoin on the parent or on the derived query
RegisterJoinOn ==
    /\ term.pc = "derived"
    /\ \E who \in {"parent", "derived"}, name \in LateNames :
        /\ SetMem(RegisterJoin(mem, IF who = "parent" THEN term.q ELSE term.q2,
                               name, TagsJoin))
        /\ term' = [term EXCEPT !.pc = "done", !.meth = "RegisterJoin",
                                !.arg = <<who, name>>]
    /\ UNCHANGED <<dialect, sent, tlog, buildVars, txVars, auxVars>>

\* RegisterPreloader on the parent or on the derived query
RegisterPreloaderOn ==
    /\ term.pc = "derived"
    /\ \E who \in {"parent", "derived"}, name \in LateNames :
        /\ SetMem(RegisterPreloader(mem,
                      IF who = "parent" THEN term.q ELSE term.q2,
                      name, "preload" \o name))
        /\ term' = [term EXCEPT !.pc = "done", !.meth = "RegisterPreloader",
                                !.arg = <<who, name>>]
    /\ UNCHANGED <<dialect, sent, tlog, buildVars, txVars, auxVars>>

NextRegister == Derive \/ RegisterJoinOn \/ RegisterPreloaderOn

SpecRegister == InitRegister /\ [][NextRegister]_vars

Registered == term.pc = "done" /\ term.meth \in {"RegisterJoin", "RegisterPreloader"}

\* C24: once q2 is derived from q by a builder call, RegisterJoin or
\* RegisterPreloader on q2 leaves the names q resolves as they were, and
\* registering on q leaves those of q2 as they were.
C24_RegistrationNotShared ==
    (Registered /\ term.q2 # term.q) =>
        /\ term.arg[1] = "derived" =>
              Resolves(mem, term.q) = term.view0.parent
        /\ term.arg[1] = "parent" =>
              Resolves(mem, term.q2) = term.view0.derived

\* C24 holds of a query on which nothing was registered before the
\* derivation: the first registration makes a map of its own
RegistrationOnBareQuery ==
    (Registered /\ term.q2 # term.q
       /\ term.view0.parent = Resolves(BareFactory.m, BareFactory.id)) =>
        /\ term.arg[1] = "derived" =>
              Resolves(mem, term.q) = term.view0.parent
        /\ term.arg[1] = "parent" =>
              Resolves(mem, term.q2) = term.view0.derived

\* the statement Create sent: the primary-key column in its column list or
\* not, the RETURNING clause at its end or not
InsertListsPK ==
    LET sql == sent[1].sql
        to == CHOOSE i \in 1..Len(sql) : sql[i] = ") VALUES "
    IN \E i \in 1..to : sql[i] = QuoteIdent(dialect, PK)

EndsWithReturning ==
    sent[1].sql[Len(sent[1].sql)] = " RETURNING \"id\""

\* the statement of Create and, when Create returns no error, the key
CreateStatementAndKey ==
    /\ Len(sent) = 1
    /\ InsertListsPK <=> ~term.setPK
    /\ IF term.setPK /\ UseReturning(dialect)
       THEN /\ sent[1].kind = "query"
            /\ EndsWithReturning
            /\ term.err = NoErr => term.val[1].ID = term.resp.ids[1]
       ELSE /\ sent[1].kind = "exec"
            /\ ~EndsWithReturning
            /\ term.err = NoErr =>
                  term.val[1].ID = (IF term.setPK THEN FirstId
                                    ELSE term.arg[1].ID)

\* the error of the connection, as it is
StorageErrorOf(r) ==
    CASE r.kind = "queryErr" -> QueryErr
      [] r.kind = "execErr" -> ExecErr
      [] r.kind = "rows" /\ r.scanErrAt = 1 -> ScanErr
      [] r.kind = "rows" /\ Len(r.ids) > 0 /\ r.rowsErr -> RowsErr
      [] r.kind = "result" /\ r.lastIDErr /\ term.setPK -> LastInsertIdErr
      [] OTHER -> NoErr

\* C26 (as written): the INSERT of Create lists the primary-key column if
\* and only if no key-setter is registered; with a key-setter, a RETURNING
\* dialect gets the RETURNING clause and the key of the returned row is set
\* on the value, another dialect gets the statement executed and the
\* last-insert-id set on the value; when the statement fails the value is
\* left as it was, the key-setter not called, and the error of the
\* connection is returned as it is.
C26_CreateKeyHandling ==
    Ended("Create") =>
        /\ CreateStatementAndKey
        /\ term.err \in {QueryErr, ExecErr, ScanErr, RowsErr, LastInsertIdErr} =>
              /\ term.val = term.arg
              /\ term.err = StorageErrorOf(term.resp)

\* C26 (amended): as above, but an error of the row iteration that comes
\* after the returned row was read is returned with the key already set on
\* the value; every earlier failure leaves the value as it was.
C26_CreateKeyHandlingUnlessRowsErr ==
    Ended("Create") =>
        /\ CreateStatementAndKey
        /\ term.err \in {QueryErr, ExecErr, ScanErr, LastInsertIdErr,
                         ErrNoReturningResult} =>
              term.val = term.arg
        /\ term.err \in {QueryErr, ExecErr, ScanErr, RowsErr, LastInsertIdErr} =>
              term.err = StorageErrorOf(term.resp)
        /\ term.err = RowsErr => term.val[1].ID = term.resp.ids[1]

C26_Witness ==
    /\ Ended("Create")
    /\ term.setPK
    /\ dialect = "postgres"
    /\ term.err = NoErr
    /\ term.arg[1].ID = 0
    /\ term.val[1].ID = ReturnedId(1)
    /\ ~InsertListsPK

-----------------------------------------------------------------------------
(* Scopes called with a list of scopes, against the builder methods called
   one after the other *)

MaxApplied == 3

\* the scopes a caller passes, of every kind: the two Where and the two
\* Limit scopes tell an order and a last value apart
AppliedScopes ==
    { ScopeOf(WhereOp(1)), ScopeOf(WhereOp(2)), ScopeOf(OrderByOp(1)),
      ScopeOf(LimitOp(1)), ScopeOf(LimitOp(2)), ScopeOf(OffsetOp(1)),
      ScopeOf(SelectOp(1)) }

ScopeLists == UNION { [1..n -> AppliedScopes] : n \in 0..MaxApplied }

\* the builder method call that goes with a scope
OpOf(s) == [Op(s.kind) EXCEPT !.clause = s.clause, !.args = s.args, !.n = s.n]

InitApplied ==
    /\ dialect \in Dialects
    /\ \E recipe \in BaseRecipes, ss \in ScopeLists :
         LET b == BuildAll(Factory.m, dialect, Factory.id, recipe)
         IN /\ queries = b.m.queries
            /\ arrays = b.m.arrays
            /\ maps = b.m.maps
            /\ term = [NewTerm EXCEPT !.q = b.id, !.calls = recipe]
            /\ pure = [fn |-> "Scopes", in |-> ss, out |-> <<>>]
    /\ BuildIdle
    /\ TxIdle
    /\ sl = NoSlices
    /\ sent = <<>>
    /\ tlog = <<>>

\* q2 := q.Scopes(s1, ..., sn)
CallScopes ==
    /\ pure.fn = "Scopes"
    /\ pure.out = <<>>
    /\ LET r == Scopes(mem, term.q, pure.in)
       IN /\ SetMem(r.m)
          /\ pure' = [pure EXCEPT !.out = <<r.id>>]
          /\ term' = [term EXCEPT !.q2 = r.id, !.view0 = View(mem, term.q)]
    /\ UNCHANGED <<dialect, sent, tlog, buildVars, txVars, sl>>

NextApplied == CallScopes

SpecApplied == InitApplied /\ [][NextApplied]_vars

\* the query the builder methods give when called on q one after the
\* other, for the scopes in their order
ChainOf(d, recipe, ss) ==
    LET b == BuildAll(Factory.m, d, Factory.id, recipe)
        c == BuildAll(b.m, d, b.id, [i \in 1..Len(ss) |-> OpOf(ss[i])])
    IN Observable(c.m, d, c.id)

\* C29: q.Scopes(s1, ..., sn) over Where, OrderBy, Limit, Offset and Select
\* scopes gives a query whose terminal SQL and arguments are those of the
\* query the builder methods give when called on q in the same order, and
\* q is as it was.
C29_ScopesEqualsBuilderChain ==
    (pure.fn = "Scopes" /\ pure.out # <<>>) =>
        /\ Observable(mem, dialect, term.q2) =
              ChainOf(dialect, term.calls, pure.in)
        /\ View(mem, term.q) = term.view0
        /\ term.q2 # term.q

C29_Witness ==
    /\ pure.fn = "Scopes"
    /\ pure.out # <<>>
    /\ pure.in = <<ScopeOf(LimitOp(1)), ScopeOf(WhereOp(2)), ScopeOf(LimitOp(2))>>
    /\ Len(term.view0.wheres) = 3
    /\ View(mem, term.q2).limit = Ptr(12)
    /\ Len(View(mem, term.q2).wheres) = 4

\* C30: Transaction leaves no begun transaction open: once Begin succeeded,
\* whether fn returns nil, returns an error or panics and whether Commit
\* fails or not, Commit succeeded or Rollback was invoked by the time
\* control leaves Transaction, and the error of a failed Commit is what
\* Transaction returns; when Begin fails its error is returned and fn,
\* Commit and Rollback are not invoked.
C30_NoTransactionLeftOpen ==
    /\ txpc = "idle" => ~txopen
    /\ \A k \in 1..Len(hist) :
        LET h == hist[k] IN
        /\ h.begun =>
              /\ h.commit = "ok" \/ Has(h.log, "Rollback")
              /\ h.commit = "err" => Returned(h, CommitErr)
        /\ ~h.begun =>
              /\ Returned(h, BeginErr)
              /\ h.fn.kind = "none"
              /\ h.log = <<>>

\* C30 holds of every call whose fn comes back to Transaction, by a return
\* or by a panic
NoTransactionLeftOpenWhenFnComesBack ==
    \A k \in 1..Len(hist) :
        LET h == hist[k] IN
        /\ (h.begun /\ h.fn.kind # "goexit") =>
              /\ h.commit = "ok" \/ Has(h.log, "Rollback")
              /\ h.commit = "err" => Returned(h, CommitErr)
        /\ ~h.begun =>
              /\ Returned(h, BeginErr)
              /\ h.fn.kind = "none"
              /\ h.log = <<>>

=============================================================================
